---------------------------- MODULE Spec2Model ----------------------------
(***************************************************************************)
(* Conflict-aware transaction scheduler (src/model) and event-log          *)
(* consistency checker (src/runner/analyze.py).                            *)
(*                                                                         *)
(* Python lists are TLA+ sequences; a Python index p is the TLA+ index     *)
(* p + 1.  A reference to an element of the input batch is modelled by     *)
(* its position in the batch, so that two equal-valued transactions stay   *)
(* distinguishable, as Python objects are.                                 *)
(***************************************************************************)
EXTENDS Integers, Sequences, FiniteSets, TLC

VARIABLES
  \* ---- scheduler run (src/model/scheduler.py)
  all_txns,     \* the batch handed to schedule()
  sched,        \* which scheduler runs: "greedy" | "tournament"
  pc,           \* position of the call
  main_txn,     \* GreedyScheduler: the accumulated merged transaction
  sched_txns,   \* GreedyScheduler: positions of the chosen transactions
  idx,          \* GreedyScheduler: Python index of the next transaction
  txns,         \* TournamentScheduler: the working list of survivors
  levels,       \* history: the working list at every level so far
  result,       \* the returned list, as positions in all_txns
  err,          \* the exception that ended the call, or "none"
  new_txns,     \* TournamentScheduler: the next level, one slot per pair
  c_all_txns,   \* CompressedScheduler.schedule: the batch it was handed
  c_family,     \* CompressedScheduler: self.family, or None
  \* ---- compat / merge / compress applied to a pair (src/model/workload.py)
  workload,     \* the exact-set transactions <<A, B>>
  family,       \* the parallel-signature family factory, or None
  compressed,   \* compress_workload(workload, family), or <<>> before it ran
  compatAns,    \* the outcome of A.compat(B), "unset" before the call
  sigAns,       \* the outcome of compat on the compressed pair
  mergeAns,     \* what A.merge(B) returned or raised, None before the call
  all_objs,     \* make_workload: the sampled objects
  all_writes,   \* make_workload: the sampled write flags
  num_elems_per_txn, \* make_workload: its parameter
  \* ---- one signature under a sequence of calls (src/model/bloom_filter.py)
  sig,          \* the signature s
  peer,         \* a second signature drawn from the same family factory
  added,        \* the elements add() was called with on s
  unioned,      \* whether s has been replaced by a union since it was made
  stranger,     \* a signature drawn from an independently made family
  out,          \* the last value computed from the signatures: op, arg, value
  \* ---- check_consistency over an event log (src/runner/analyze.py)
  txn_map,          \* txn id -> [reads, writes], from the transactions file
  num_puppets,      \* the number of lanes
  submitted,
  scheduled,
  done,
  submit_times,     \* list of submit times, in log order
  schedule_times,   \* txn id -> <<time, puppet>>
  done_times,       \* txn id -> time
  active_txns,      \* txn id -> <<txn, puppet>>
  puppet_busy_time, \* puppet -> accumulated busy time
  first_submit_time,\* <<>> for None, <<t>> otherwise
  last_done_time,   \* <<>> for None, <<t>> otherwise
  apc,              \* "loop" | "passed" | "reported" | "exit" | "crash"
  exit_msg,         \* the diagnostic of sys.exit, or None
  utilization,      \* the printed utilization: puppet -> <<num, den>>, or None
  csv_lines,        \* the lines of the transactions file
  \* ---- parse_log over the lines of a log file (src/runner/analyze.py)
  log_lines,        \* the lines of the log file
  events,           \* the list parse_log returned
  lpc,              \* "parse_log" | "returned" | "exit" | "crash"
  log_msg,          \* the diagnostic or exception that ended it, or None
  \* ---- the analyzer's conflict() on the sets of a scheduler pair
  conflictAns,      \* [ab, ba]: conflict(A, B) and conflict(B, A), or None
  \* ---- a CuckooHashTable beside a reference dict (src/model/hash_table.py)
  hash_fn,          \* the multipliers of the hash function, one per table
  num_tables,
  has,              \* the bitarray
  data,             \* the list of (key, value) or None
  insert_stats,
  ref,              \* the reference dict of fuzz_test
  got,              \* the last table[k] evaluated: [key, value], or None
  cpc,              \* "run" | "error"
  cerr,             \* the exception that ended the run, or None
  \* ---- generate_transactions (src/runner/scripts/generate.py)
  n_txns,
  n_objs,
  max_objs_per_txn,
  transactions,     \* the lines made so far, each the list of its accesses
  gen_txn_id,       \* txn_id
  n_accesses,
  accesses,
  used_objs,
  gen_objid,        \* objid
  gpc               \* "txn" | "access" | "check" | "returned"

schedVars == <<all_txns, sched, pc, main_txn, sched_txns, idx, txns, levels,
               result, err, new_txns, c_all_txns, c_family>>

pairVars == <<workload, family, compressed, compatAns, sigAns, mergeAns,
              all_objs, all_writes, num_elems_per_txn>>

bloomVars == <<sig, peer, added, unioned, stranger, out>>

analyzeVars == <<txn_map, num_puppets, submitted, scheduled, done,
                 submit_times, schedule_times, done_times, active_txns,
                 puppet_busy_time, first_submit_time, last_done_time, apc,
                 exit_msg, utilization, csv_lines>>

logVars == <<log_lines, events, lpc, log_msg>>

\* the components that are not part of the scheduler or of check_consistency
cuckooVars == <<hash_fn, num_tables, has, data, insert_stats, ref, got, cpc, cerr>>

genVars == <<n_txns, n_objs, max_objs_per_txn, transactions, gen_txn_id,
             n_accesses, accesses, used_objs, gen_objid, gpc>>

restVars == <<logVars, conflictAns, cuckooVars, genVars>>

vars == <<schedVars, pairVars, bloomVars, analyzeVars, restVars>>

\* what an action of one component leaves alone
notSched == <<pairVars, bloomVars, analyzeVars, restVars>>

notPair == <<schedVars, bloomVars, analyzeVars, restVars>>

notBloom == <<schedVars, pairVars, analyzeVars, restVars>>

notAnalyze == <<schedVars, pairVars, bloomVars, restVars>>

notLog == <<schedVars, pairVars, bloomVars, analyzeVars, conflictAns,
           cuckooVars, genVars>>

notConflict == <<schedVars, pairVars, bloomVars, analyzeVars, logVars,
                cuckooVars, genVars>>

notCuckoo == <<schedVars, pairVars, bloomVars, analyzeVars, logVars,
              conflictAns, genVars>>

notGen == <<schedVars, pairVars, bloomVars, analyzeVars, logVars,
           conflictAns, cuckooVars>>

-----------------------------------------------------------------------------
(* Bounds *)

NumObjs == 2
MaxBatch == 4
HashShift == 1
MaxHashes == 2
MaxStale == 1
NumTxns == 2
NumLanes == 2
MaxTime == 1
PartLen == 2
NumParts == 2
MaxElems == 2
MaxCompressed == 3

Objs == 0 .. (NumObjs - 1)

-----------------------------------------------------------------------------
(* Errors: a raised exception is a record with an "error" field; an        *)
(* operation applied to an error passes it on, as an exception unwinds.    *)

AssertionError == [error |-> "AssertionError"]

TypeError == [error |-> "TypeError"]

AttributeError == [error |-> "AttributeError"]

\* raise Exception("... does not support ...")
UnsupportedOperation == [error |-> "Exception"]

IsError(v) == "error" \in DOMAIN v

-----------------------------------------------------------------------------
(* Signatures (src/model/bloom_filter.py)                                  *)

RECURSIVE Pow2(_)
Pow2(n) == IF n = 0 THEN 1 ELSE 2 * Pow2(n - 1)

\* make_hash_function draws mult = randint(2**40, 2**50)*2 + 1 and shifts
\* by 35 bits; the model keeps the formula and scales the widths down to
\* HashShift bits, so that the products stay within TLC's integers.
Mults == { 2 * r + 1 : r \in Pow2(HashShift) .. (Pow2(HashShift + 1) - 1) }

\* One closure returned by make_hash_function: Python compares closures by
\* identity, which is the pair (fam, index) here.
HashFunction(famId, i, mult, buckets) ==
  [fam |-> famId, index |-> i, mult |-> mult, buckets |-> buckets]

Hash(fn, x) == ((x * fn.mult) \div Pow2(HashShift)) % fn.buckets

\* bitarray(n) allocates n bits without initialising them: any content,
\* here any content with at most MaxStale stale one-bits.
FreshBits(n) ==
  { b \in [1 .. n -> {0, 1}] : Cardinality({ i \in 1 .. n : b[i] = 1 }) <= MaxStale }

SigLen == PartLen * NumParts

BloomFilter(bits, hash_fns) == [kind |-> "bf", bits |-> bits, hash_fns |-> hash_fns]

\* fault variant: add() returns after the first hash function
SetBitsFirstOnly(bits, hash_fns, elem) ==
  IF hash_fns = <<>>
    THEN bits
    ELSE [bits EXCEPT ![Hash(Head(hash_fns), elem) + 1] = 1]

RECURSIVE SetBits(_, _, _)
SetBits(bits, hash_fns, elem) ==
  IF hash_fns = <<>>
    THEN bits
    ELSE SetBits([bits EXCEPT ![Hash(Head(hash_fns), elem) + 1] = 1],
                 Tail(hash_fns), elem)

BfAdd(self, elem) == BloomFilter(SetBits(self.bits, self.hash_fns, elem), self.hash_fns)

BfContains(self, elem) ==
  \A i \in 1 .. Len(self.hash_fns) : self.bits[Hash(self.hash_fns[i], elem) + 1] = 1

Min(a, b) == IF a <= b THEN a ELSE b

\* the three assertions of BloomFilter.__and__ / __or__; zip stops at the
\* shorter of the two hash_fns lists
BfCombinable(self, other) ==
  /\ other.kind = "bf"
  /\ \A i \in 1 .. Min(Len(self.hash_fns), Len(other.hash_fns)) :
       self.hash_fns[i] = other.hash_fns[i]
  /\ Len(self.bits) = Len(other.bits)

\* fault variant: the result keeps the bits of self that other lacks
BfAndNot(self, other) ==
  IF ~ BfCombinable(self, other)
    THEN AssertionError
    ELSE BloomFilter([i \in 1 .. Len(self.bits) |->
                        IF self.bits[i] = 1 /\ other.bits[i] = 0 THEN 1 ELSE 0],
                     self.hash_fns)

BfAnd(self, other) ==
  IF ~ BfCombinable(self, other)
    THEN AssertionError
    ELSE BloomFilter([i \in 1 .. Len(self.bits) |->
                        IF self.bits[i] = 1 /\ other.bits[i] = 1 THEN 1 ELSE 0],
                     self.hash_fns)

\* fault variant: the union keeps the bits of self alone
BfOrKeepsSelf(self, other) ==
  IF ~ BfCombinable(self, other)
    THEN AssertionError
    ELSE BloomFilter(self.bits, self.hash_fns)

BfOr(self, other) ==
  IF ~ BfCombinable(self, other)
    THEN AssertionError
    ELSE BloomFilter([i \in 1 .. Len(self.bits) |->
                        IF self.bits[i] = 1 \/ other.bits[i] = 1 THEN 1 ELSE 0],
                     self.hash_fns)

\* fault variant: remove clears the bits of elem and raises nothing
BfRemoveClears(self, elem) ==
  BloomFilter([i \in 1 .. Len(self.bits) |->
                 IF \E k \in 1 .. Len(self.hash_fns) : Hash(self.hash_fns[k], elem) + 1 = i
                   THEN 0
                   ELSE self.bits[i]],
              self.hash_fns)

\* remove and __len__ raise before they touch the bits
BfRemove(self, elem) == UnsupportedOperation

BfLen(self) == UnsupportedOperation

\* "BloomFilter(bits=copy(self.bits), hash_fns=self.hash_fns)"
BfCopy(self) == BloomFilter([i \in 1 .. Len(self.bits) |-> self.bits[i]], self.hash_fns)

BfBool(self) == \E i \in 1 .. Len(self.bits) : self.bits[i] = 1

ParallelBloomFilter(parts) == [kind |-> "pbf", parts |-> parts]

PbfAdd(self, elem) ==
  ParallelBloomFilter([i \in 1 .. Len(self.parts) |-> BfAdd(self.parts[i], elem)])

PbfContains(self, elem) ==
  \A i \in 1 .. Len(self.parts) : BfContains(self.parts[i], elem)

PbfCombinable(self, other) ==
  /\ other.kind = "pbf"
  /\ Len(self.parts) = Len(other.parts)

\* a list comprehension over the parts: the first part that raises ends it
FirstError(parts) ==
  LET bad == { i \in 1 .. Len(parts) : IsError(parts[i]) }
  IN  parts[CHOOSE i \in bad : \A j \in bad : i <= j]

PbfOfParts(parts) ==
  IF \E i \in 1 .. Len(parts) : IsError(parts[i])
    THEN FirstError(parts)
    ELSE ParallelBloomFilter(parts)

PbfAnd(self, other) ==
  IF ~ PbfCombinable(self, other)
    THEN AssertionError
    ELSE PbfOfParts([i \in 1 .. Len(self.parts) |-> BfAnd(self.parts[i], other.parts[i])])

PbfOr(self, other) ==
  IF ~ PbfCombinable(self, other)
    THEN AssertionError
    ELSE PbfOfParts([i \in 1 .. Len(self.parts) |-> BfOr(self.parts[i], other.parts[i])])

PbfRemove(self, elem) == UnsupportedOperation

PbfLen(self) == UnsupportedOperation

\* "[part.copy() for part in self.parts]": a BloomFilter has no attribute
\* named copy, so the first part raises
PbfCopy(self) ==
  IF Len(self.parts) = 0
    THEN ParallelBloomFilter(<<>>)
    ELSE AttributeError

PbfBool(self) == \A i \in 1 .. Len(self.parts) : BfBool(self.parts[i])

\* make_bloom_filter_family: the hash functions are drawn once and shared
\* by every filter the factory returns
MakeBloomFilterFamily(famId, len_signature, mults) ==
  [len |-> len_signature,
   hash_fns |-> [i \in 1 .. Len(mults) |-> HashFunction(famId, i, mults[i], len_signature)]]

NewBloomFilter(fam, bits) == BloomFilter(bits, fam.hash_fns)

\* make_parallel_bloom_filter_family: num_partitions families of one hash
\* function each, of len_signature // num_partitions bits
MakeParallelBloomFilterFamily(famId, len_signature, num_partitions, mults) ==
  IF len_signature % num_partitions # 0
    THEN AssertionError
    ELSE [part_families |->
            [i \in 1 .. num_partitions |->
               MakeBloomFilterFamily(<<famId, i>>, len_signature \div num_partitions,
                                     <<mults[i]>>)]]

NewParallelBloomFilter(fam, bits) ==
  ParallelBloomFilter([i \in 1 .. Len(fam.part_families) |->
                         NewBloomFilter(fam.part_families[i], bits[i])])

Ones(bits) == Cardinality({ i \in DOMAIN bits : bits[i] = 1 })

RECURSIVE BitProduct(_)
BitProduct(lens) ==
  IF lens = <<>>
    THEN { <<>> }
    ELSE { <<b>> \o rest : b \in [1 .. Head(lens) -> {0, 1}],
                           rest \in BitProduct(Tail(lens)) }

RECURSIVE TotalOnes(_)
TotalOnes(parts) ==
  IF parts = <<>> THEN 0 ELSE Ones(Head(parts)) + TotalOnes(Tail(parts))

\* the uninitialised contents of the bit arrays of one fresh parallel
\* signature: any content, here with at most MaxStale stale one-bits
FreshParallelBits(fam) ==
  { b \in BitProduct([i \in 1 .. Len(fam.part_families) |-> fam.part_families[i].len]) :
      TotalOnes(b) <= MaxStale }

\* the families make_parallel_bloom_filter_family may return
ParallelFamilies ==
  { MakeParallelBloomFilterFamily("F", SigLen, NumParts, mults) :
      mults \in [1 .. NumParts -> Mults] }

-----------------------------------------------------------------------------
(* The Set capability: Python frozenset, BloomFilter, ParallelBloomFilter  *)

ExactSet(S) == [kind |-> "exact", elems |-> S]

SetAnd(a, b) ==
  IF IsError(a) THEN a
  ELSE IF IsError(b) THEN b
  ELSE CASE a.kind = "exact" ->
              IF b.kind = "exact" THEN ExactSet(a.elems \cap b.elems) ELSE TypeError
         [] a.kind = "bf" -> BfAnd(a, b)
         [] a.kind = "pbf" -> PbfAnd(a, b)

SetOr(a, b) ==
  IF IsError(a) THEN a
  ELSE IF IsError(b) THEN b
  ELSE CASE a.kind = "exact" ->
              IF b.kind = "exact" THEN ExactSet(a.elems \cup b.elems) ELSE TypeError
         [] a.kind = "bf" -> BfOr(a, b)
         [] a.kind = "pbf" -> PbfOr(a, b)

SetBool(s) ==
  CASE s.kind = "exact" -> s.elems # {}
    [] s.kind = "bf" -> BfBool(s)
    [] s.kind = "pbf" -> PbfBool(s)

\* s.remove(elem) on a signature: the signature afterwards, or the exception
SetRemove(s, elem) ==
  CASE s.kind = "bf" -> BfRemove(s, elem)
    [] s.kind = "pbf" -> PbfRemove(s, elem)

\* len(s) on a signature
SetLen(s) ==
  CASE s.kind = "bf" -> BfLen(s)
    [] s.kind = "pbf" -> PbfLen(s)

\* copy.copy(s)
SetCopy(s) ==
  CASE s.kind = "exact" -> ExactSet(s.elems)
    [] s.kind = "bf" -> BfCopy(s)
    [] s.kind = "pbf" -> PbfCopy(s)

SetAdd(s, elem) ==
  CASE s.kind = "exact" -> ExactSet(s.elems \cup {elem})
    [] s.kind = "bf" -> BfAdd(s, elem)
    [] s.kind = "pbf" -> PbfAdd(s, elem)

SetContains(s, elem) ==
  CASE s.kind = "exact" -> elem \in s.elems
    [] s.kind = "bf" -> BfContains(s, elem)
    [] s.kind = "pbf" -> PbfContains(s, elem)

-----------------------------------------------------------------------------
(* Transaction (src/model/workload.py)                                     *)

Transaction(i, r, w) == [ids |-> i, read_set |-> r, write_set |-> w]

\* fault variant: the write-write overlap is left out of the conflict set
ConflictsNoWriteWrite(ts1, ts2) ==
  LET r1w2_set == SetAnd(ts1.read_set, ts2.write_set)
      w1r2_set == SetAnd(ts1.write_set, ts2.read_set)
  IN  SetOr(r1w2_set, w1r2_set)

Conflicts(ts1, ts2) ==
  LET r1w2_set == SetAnd(ts1.read_set, ts2.write_set)
      w1r2_set == SetAnd(ts1.write_set, ts2.read_set)
      w1w2_set == SetAnd(ts1.write_set, ts2.write_set)
  IN  SetOr(SetOr(r1w2_set, w1r2_set), w1w2_set)

\* compat raises when a set operation inside it does
CompatRaises(ts1, ts2) == IsError(Conflicts(ts1, ts2))

Compat(ts1, ts2) == ~ SetBool(Conflicts(ts1, ts2))

\* fault variant: the merged transaction keeps the left operand's sets
MergeKeepsLeftSets(ts1, ts2) ==
  IF CompatRaises(ts1, ts2)
    THEN Conflicts(ts1, ts2)
    ELSE IF ~ Compat(ts1, ts2)
      THEN AssertionError
      ELSE Transaction(ts1.ids \cup ts2.ids, ts1.read_set, ts1.write_set)

\* fault variant: the merged transaction keeps the left operand's ids
MergeKeepsLeftIds(ts1, ts2) ==
  IF CompatRaises(ts1, ts2)
    THEN Conflicts(ts1, ts2)
    ELSE IF ~ Compat(ts1, ts2)
      THEN AssertionError
      ELSE Transaction(ts1.ids,
                       SetOr(ts1.read_set, ts2.read_set),
                       SetOr(ts1.write_set, ts2.write_set))

\* fault variant: no assertion guards the union
MergeUnchecked(ts1, ts2) ==
  IF CompatRaises(ts1, ts2)
    THEN Conflicts(ts1, ts2)
    ELSE Transaction(ts1.ids \cup ts2.ids,
                     SetOr(ts1.read_set, ts2.read_set),
                     SetOr(ts1.write_set, ts2.write_set))

Merge(ts1, ts2) ==
  IF CompatRaises(ts1, ts2)
    THEN Conflicts(ts1, ts2)
    ELSE IF ~ Compat(ts1, ts2)
      THEN AssertionError
      ELSE Transaction(ts1.ids \cup ts2.ids,
                       SetOr(ts1.read_set, ts2.read_set),
                       SetOr(ts1.write_set, ts2.write_set))

\* "for obj in s: target.add(obj)": the set is iterated in some order
RECURSIVE AddAll(_, _)
AddAll(target, S) ==
  IF S = {}
    THEN target
    ELSE LET obj == CHOOSE x \in S : TRUE
         IN  AddAll(SetAdd(target, obj), S \ {obj})

\* fault variant: the write objects are never added to the write signature
CompressTransactionNoWrites(transaction, fam, freshRead, freshWrite) ==
  LET read_set == AddAll(NewParallelBloomFilter(fam, freshRead),
                         transaction.read_set.elems)
      write_set == NewParallelBloomFilter(fam, freshWrite)
  IN  Transaction(transaction.ids, read_set, write_set)

CompressTransaction(transaction, fam, freshRead, freshWrite) ==
  LET read_set == AddAll(NewParallelBloomFilter(fam, freshRead),
                         transaction.read_set.elems)
      write_set == AddAll(NewParallelBloomFilter(fam, freshWrite),
                          transaction.write_set.elems)
  IN  Transaction(transaction.ids, read_set, write_set)

\* fresh[i] holds the uninitialised contents of the two signatures built
\* for workload[i]
CompressWorkload(list, fam, fresh) ==
  [i \in 1 .. Len(list) |->
     CompressTransaction(list[i], fam, fresh[i].read, fresh[i].write)]

FreshForWorkload(list, fam) ==
  [1 .. Len(list) -> [read : FreshParallelBits(fam), write : FreshParallelBits(fam)]]

-----------------------------------------------------------------------------
(* Inputs of a scheduler run                                               *)

None == [none |-> TRUE]

\* The read/write sets of one input transaction: it touches at most one
\* object, which it reads, writes, or both.
ExactShapes ==
  { [r |-> {}, w |-> {}] }
    \cup { [r |-> {o}, w |-> {}] : o \in Objs }
    \cup { [r |-> {}, w |-> {o}] : o \in Objs }
    \cup { [r |-> {o}, w |-> {o}] : o \in Objs }

\* How the caller numbers the transactions of a batch of n: by list
\* position (as make_workload does), from the end, or from 1.
IdAssignments == {"position", "reversed", "one_based"}

IdOf(mode, n, p) ==
  CASE mode = "position" -> p
    [] mode = "reversed" -> n - 1 - p
    [] mode = "one_based" -> p + 1

Batch(shape, mode) ==
  [i \in 1 .. Len(shape) |->
     Transaction({IdOf(mode, Len(shape), i - 1)},
                 ExactSet(shape[i].r), ExactSet(shape[i].w))]

\* every order in which "for id in ids" may enumerate a frozenset
Enumerations(S) ==
  { q \in [1 .. Cardinality(S) -> S] : \A i, j \in DOMAIN q : q[i] = q[j] => i = j }

-----------------------------------------------------------------------------
(* GreedyScheduler.schedule (src/model/scheduler.py)                       *)

GreedyStart ==
  /\ pc = "start"
  /\ sched = "greedy"
  /\ IF Len(all_txns) = 0
       THEN /\ pc' = "error"
            /\ err' = "IndexError"
            /\ UNCHANGED <<main_txn, sched_txns, idx>>
       ELSE /\ main_txn' = all_txns[1]
            /\ sched_txns' = <<0>>
            /\ idx' = 1
            /\ pc' = "greedy"
            /\ err' = err
  /\ UNCHANGED <<all_txns, sched, txns, levels, result>>
  /\ UNCHANGED <<new_txns, c_all_txns, c_family>>
  /\ UNCHANGED notSched

\* "if main_txn.compat(txn)"
GreedyAccept(acc, txn) == Compat(acc, txn)

\* what the assert at the head of merge raises
MergePrecondition == "AssertionError: Can only merge compatible transactions"

GreedyStep ==
  /\ pc = "greedy"
  /\ idx < Len(all_txns)
  /\ LET txn == all_txns[idx + 1]
     IN  IF CompatRaises(main_txn, txn)
           THEN /\ pc' = "error"
                /\ err' = Conflicts(main_txn, txn).error
                /\ UNCHANGED <<main_txn, sched_txns, idx>>
         ELSE IF GreedyAccept(main_txn, txn) /\ IsError(Merge(main_txn, txn))
           THEN /\ pc' = "error"
                /\ err' = MergePrecondition
                /\ UNCHANGED <<main_txn, sched_txns, idx>>
           ELSE /\ IF GreedyAccept(main_txn, txn)
                     THEN /\ main_txn' = Merge(main_txn, txn)
                          /\ sched_txns' = Append(sched_txns, idx)
                     ELSE UNCHANGED <<main_txn, sched_txns>>
                /\ idx' = idx + 1
                /\ UNCHANGED <<pc, err>>
  /\ UNCHANGED <<all_txns, sched, txns, levels, result>>
  /\ UNCHANGED <<new_txns, c_all_txns, c_family>>
  /\ UNCHANGED notSched

GreedyReturn ==
  /\ pc = "greedy"
  /\ idx = Len(all_txns)
  /\ result' = sched_txns
  /\ pc' = "done"
  /\ UNCHANGED <<all_txns, sched, main_txn, sched_txns, idx, txns, levels, err>>
  /\ UNCHANGED <<new_txns, c_all_txns, c_family>>
  /\ UNCHANGED notSched

-----------------------------------------------------------------------------
(* TournamentScheduler.schedule (src/model/scheduler.py)                   *)

\* fault variant: the pair is merged without asking compat
ReducePairAlwaysMerge(ts1, ts2) == Merge(ts1, ts2)

\* fault variant: the right sibling wins an incompatible pair
ReducePairRightWins(ts1, ts2) == IF Compat(ts1, ts2) THEN Merge(ts1, ts2) ELSE ts2

\* "new_txn = ts1.merge(ts2) if ts1.compat(ts2) else ts1"
ReducePair(ts1, ts2) == IF Compat(ts1, ts2) THEN Merge(ts1, ts2) ELSE ts1

\* itertools.batched(txns, 2) over a list of even length
ReduceLevel(list) ==
  [j \in 1 .. (Len(list) \div 2) |-> ReducePair(list[2 * j - 1], list[2 * j])]

LevelRaises(list) ==
  \E j \in 1 .. (Len(list) \div 2) : CompatRaises(list[2 * j - 1], list[2 * j])

\* merge raises on some pair of the level
LevelMergeFails(list) ==
  \E j \in 1 .. (Len(list) \div 2) : IsError(ReducePair(list[2 * j - 1], list[2 * j]))

TournamentStart ==
  /\ pc = "start"
  /\ sched = "tournament"
  /\ txns' = all_txns
  /\ levels' = <<all_txns>>
  /\ pc' = "tournament"
  /\ UNCHANGED <<all_txns, sched, main_txn, sched_txns, idx, result, err>>
  /\ UNCHANGED <<new_txns, c_all_txns, c_family>>
  /\ UNCHANGED notSched

\* fault variant: the level is written back into the list schedule() was
\* handed
TournamentLevelInPlace ==
  /\ pc = "tournament"
  /\ Len(txns) > 1
  /\ IF Len(txns) % 2 # 0 \/ LevelRaises(txns)
       THEN /\ pc' = "error"
            /\ err' = "AssertionError"
            /\ UNCHANGED <<txns, levels, all_txns>>
       ELSE /\ txns' = ReduceLevel(txns)
            /\ all_txns' = ReduceLevel(txns)
            /\ levels' = Append(levels, ReduceLevel(txns))
            /\ UNCHANGED <<pc, err>>
  /\ UNCHANGED <<sched, main_txn, sched_txns, idx, result>>
  /\ UNCHANGED <<new_txns, c_all_txns, c_family>>
  /\ UNCHANGED notSched

TournamentLevel ==
  /\ pc = "tournament"
  /\ Len(txns) > 1
  /\ IF Len(txns) % 2 # 0
       THEN /\ pc' = "error"
            /\ err' = "AssertionError"
            /\ UNCHANGED <<txns, levels>>
       ELSE IF LevelRaises(txns)
         THEN /\ pc' = "error"
              /\ err' = "AssertionError"
              /\ UNCHANGED <<txns, levels>>
       ELSE IF LevelMergeFails(txns)
         THEN /\ pc' = "error"
              /\ err' = MergePrecondition
              /\ UNCHANGED <<txns, levels>>
         ELSE /\ txns' = ReduceLevel(txns)
              /\ levels' = Append(levels, ReduceLevel(txns))
              /\ UNCHANGED <<pc, err>>
  /\ UNCHANGED <<all_txns, sched, main_txn, sched_txns, idx, result>>
  /\ UNCHANGED <<new_txns, c_all_txns, c_family>>
  /\ UNCHANGED notSched

\* "[all_txns[id] for id in txns[0].ids]": the position returned for an id
LookupById(list, id) == id

TournamentReturn ==
  /\ pc = "tournament"
  /\ Len(txns) <= 1
  /\ IF Len(txns) = 0 \/ (\E id \in txns[1].ids : id >= Len(all_txns))
       THEN /\ pc' = "error"
            /\ err' = "IndexError"
            /\ result' = result
       ELSE /\ \E order \in Enumerations(txns[1].ids) :
                 result' = [i \in 1 .. Len(order) |-> LookupById(all_txns, order[i])]
            /\ pc' = "done"
            /\ err' = err
  /\ UNCHANGED <<all_txns, sched, main_txn, sched_txns, idx, txns, levels>>
  /\ UNCHANGED <<new_txns, c_all_txns, c_family>>
  /\ UNCHANGED notSched

-----------------------------------------------------------------------------
(* The scheduler specification: one schedule() call on one batch           *)

NoOut == [op |-> "none", arg |-> None, value |-> None]

SchedIdle ==
  /\ all_txns = <<>>
  /\ sched = "none"
  /\ pc = "idle"
  /\ main_txn = None
  /\ sched_txns = <<>>
  /\ idx = 0
  /\ txns = <<>>
  /\ levels = <<>>
  /\ result = <<>>
  /\ err = "none"
  /\ new_txns = <<>>
  /\ c_all_txns = <<>>
  /\ c_family = None

PairIdle ==
  /\ workload = <<>>
  /\ family = None
  /\ compressed = <<>>
  /\ compatAns = "unset"
  /\ sigAns = "unset"
  /\ mergeAns = None
  /\ all_objs = <<>>
  /\ all_writes = <<>>
  /\ num_elems_per_txn = 0

BloomIdle ==
  /\ sig = None
  /\ peer = None
  /\ added = {}
  /\ unioned = FALSE
  /\ stranger = None
  /\ out = NoOut

EmptyMap == [k \in {} |-> None]

AnalyzeIdle ==
  /\ txn_map = EmptyMap
  /\ num_puppets = 0
  /\ submitted = {}
  /\ scheduled = {}
  /\ done = {}
  /\ submit_times = <<>>
  /\ schedule_times = EmptyMap
  /\ done_times = EmptyMap
  /\ active_txns = EmptyMap
  /\ puppet_busy_time = EmptyMap
  /\ first_submit_time = <<>>
  /\ last_done_time = <<>>
  /\ apc = "idle"
  /\ exit_msg = None
  /\ utilization = None
  /\ csv_lines = <<>>

LogIdle ==
  /\ log_lines = <<>>
  /\ events = <<>>
  /\ lpc = "idle"
  /\ log_msg = None

CuckooIdle ==
  /\ hash_fn = <<>>
  /\ num_tables = 0
  /\ has = <<>>
  /\ data = <<>>
  /\ insert_stats = <<>>
  /\ ref = EmptyMap
  /\ got = None
  /\ cpc = "idle"
  /\ cerr = None

GenIdle ==
  /\ n_txns = 0
  /\ n_objs = 0
  /\ max_objs_per_txn = 0
  /\ transactions = <<>>
  /\ gen_txn_id = 0
  /\ n_accesses = 0
  /\ accesses = <<>>
  /\ used_objs = {}
  /\ gen_objid = 0
  /\ gpc = "idle"

RestIdle == LogIdle /\ conflictAns = None /\ CuckooIdle /\ GenIdle

SchedInit ==
  /\ RestIdle
  /\ PairIdle
  /\ BloomIdle
  /\ AnalyzeIdle
  /\ \E n \in 0 .. MaxBatch :
    \E shape \in [1 .. n -> ExactShapes] :
      \E mode \in IdAssignments :
        /\ all_txns = Batch(shape, mode)
        /\ sched \in {"greedy", "tournament"}
        /\ pc = "start"
        /\ main_txn = None
        /\ sched_txns = <<>>
        /\ idx = 0
        /\ txns = <<>>
        /\ levels = <<>>
        /\ result = <<>>
        /\ err = "none"
        /\ new_txns = <<>>
        /\ c_all_txns = <<>>
        /\ c_family = None

SchedNext ==
  \/ GreedyStart
  \/ GreedyStep
  \/ GreedyReturn
  \/ TournamentStart
  \/ TournamentLevel
  \/ TournamentReturn

SpecSched == SchedInit /\ [][SchedNext]_vars

-----------------------------------------------------------------------------
(* TournamentScheduler.schedule, one pair at a time: the pairs of a level  *)
(* are independent of one another, so the body of the for loop is taken    *)
(* for them in any order (the order of the loop is one of them); pair j    *)
(* delivers into slot j of the next level.                                 *)

\* fault variant: the outcome goes to the first free slot, in order of
\* completion
StoreInFirstFree(list, j, new_txn) ==
  LET free == { i \in 1 .. Len(list) : list[i] = None }
  IN  [list EXCEPT ![CHOOSE i \in free : \A k \in free : i <= k] = new_txn]

\* "new_txns.append(new_txn)" of the j-th pair of the level
StoreInSlot(list, j, new_txn) == [list EXCEPT ![j] = new_txn]

\* "while len(txns) > 1: assert len(txns) % 2 == 0; new_txns = []"
BeginLevel ==
  /\ pc = "tournament"
  /\ Len(txns) > 1
  /\ IF Len(txns) % 2 # 0
       THEN /\ pc' = "error"
            /\ err' = "AssertionError"
            /\ new_txns' = new_txns
       ELSE /\ new_txns' = [j \in 1 .. (Len(txns) \div 2) |-> None]
            /\ pc' = "level"
            /\ err' = err
  /\ UNCHANGED <<all_txns, sched, main_txn, sched_txns, idx, txns, levels,
                 result, c_all_txns, c_family>>
  /\ UNCHANGED notSched

EvalPair(j) ==
  /\ pc = "level"
  /\ j \in 1 .. Len(new_txns)
  /\ new_txns[j] = None
  /\ LET ts1 == txns[2 * j - 1]
         ts2 == txns[2 * j]
     IN  IF CompatRaises(ts1, ts2)
           THEN /\ pc' = "error"
                /\ err' = Conflicts(ts1, ts2).error
                /\ new_txns' = new_txns
         ELSE IF IsError(ReducePair(ts1, ts2))
           THEN /\ pc' = "error"
                /\ err' = MergePrecondition
                /\ new_txns' = new_txns
           ELSE /\ new_txns' = StoreInSlot(new_txns, j, ReducePair(ts1, ts2))
                /\ UNCHANGED <<pc, err>>
  /\ UNCHANGED <<all_txns, sched, main_txn, sched_txns, idx, txns, levels,
                 result, c_all_txns, c_family>>
  /\ UNCHANGED notSched

\* "txns = new_txns"
EndLevel ==
  /\ pc = "level"
  /\ \A j \in 1 .. Len(new_txns) : new_txns[j] # None
  /\ txns' = new_txns
  /\ levels' = Append(levels, new_txns)
  /\ pc' = "tournament"
  /\ UNCHANGED <<all_txns, sched, main_txn, sched_txns, idx, result, err,
                 new_txns, c_all_txns, c_family>>
  /\ UNCHANGED notSched

PairsInit ==
  /\ SchedInit
  /\ sched = "tournament"

PairsNext ==
  \/ TournamentStart
  \/ BeginLevel
  \/ \E j \in 1 .. (MaxBatch \div 2) : EvalPair(j)
  \/ EndLevel
  \/ TournamentReturn

SpecPairs == PairsInit /\ [][PairsNext]_vars

-----------------------------------------------------------------------------
(* A schedule() call on any of the three schedulers: GreedyScheduler or    *)
(* TournamentScheduler on a batch of exact-set transactions, or            *)
(* CompressedScheduler over one of them with one parallel-signature        *)
(* family.                                                                 *)

StaleOnes(f) == TotalOnes(f.read) + TotalOnes(f.write)

\* the uninitialised contents of the signatures compress_workload builds
\* for a batch of n transactions: any contents, here with at most budget
\* stale one-bits in the whole batch
RECURSIVE FreshForBatch(_, _, _)
FreshForBatch(n, fam, budget) ==
  IF n = 0
    THEN { <<>> }
    ELSE UNION { { <<f>> \o rest : rest \in FreshForBatch(n - 1, fam, budget - StaleOnes(f)) } :
                 f \in { g \in [read : FreshParallelBits(fam), write : FreshParallelBits(fam)] :
                            StaleOnes(g) <= budget } }

\* "txns = compress_workload(all_txns, self.family)" and the entry into
\* self.underlying.schedule(txns)
CompressedStart ==
  /\ pc = "compress"
  /\ \E fresh \in FreshForBatch(Len(c_all_txns), c_family, MaxStale) :
       all_txns' = CompressWorkload(c_all_txns, c_family, fresh)
  /\ pc' = "start"
  /\ UNCHANGED <<sched, main_txn, sched_txns, idx, txns, levels, result, err,
                 new_txns, c_all_txns, c_family>>
  /\ UNCHANGED notSched

AnyInit ==
  /\ RestIdle
  /\ PairIdle
  /\ BloomIdle
  /\ AnalyzeIdle
  /\ sched \in {"greedy", "tournament"}
  /\ main_txn = None
  /\ sched_txns = <<>>
  /\ idx = 0
  /\ txns = <<>>
  /\ levels = <<>>
  /\ result = <<>>
  /\ err = "none"
  /\ new_txns = <<>>
  /\ \E n \in 0 .. MaxBatch :
       \E shape \in [1 .. n -> ExactShapes] :
         \/ /\ all_txns = Batch(shape, "position")
            /\ c_all_txns = <<>>
            /\ c_family = None
            /\ pc = "start"
         \/ /\ n <= MaxCompressed
            /\ all_txns = <<>>
            /\ c_all_txns = Batch(shape, "position")
            /\ c_family \in ParallelFamilies
            /\ pc = "compress"

AnyNext ==
  \/ CompressedStart
  \/ GreedyStart
  \/ GreedyStep
  \/ GreedyReturn
  \/ TournamentStart
  \/ TournamentLevel
  \/ TournamentReturn

SpecAny == AnyInit /\ [][AnyNext]_vars

-----------------------------------------------------------------------------
(* compat on a pair of exact-set transactions                              *)

PyBool(b) == IF b THEN "True" ELSE "False"

AllShapes == { [r |-> r, w |-> w] : r \in SUBSET Objs, w \in SUBSET Objs }

PairOf(a, b) ==
  << Transaction({0}, ExactSet(a.r), ExactSet(a.w)),
     Transaction({1}, ExactSet(b.r), ExactSet(b.w)) >>

\* the outcome of ts1.compat(ts2): "True", "False", or the exception
CompatCall(ts1, ts2) ==
  IF CompatRaises(ts1, ts2)
    THEN Conflicts(ts1, ts2).error
    ELSE PyBool(Compat(ts1, ts2))

EvalCompat ==
  /\ compatAns = "unset"
  /\ compatAns' = CompatCall(workload[1], workload[2])
  /\ UNCHANGED <<workload, family, compressed, sigAns, mergeAns>>
  /\ UNCHANGED <<all_objs, all_writes, num_elems_per_txn>>
  /\ UNCHANGED notPair

\* A.merge(B): the operands are read, never assigned to
EvalMerge ==
  /\ mergeAns = None
  /\ mergeAns' = Merge(workload[1], workload[2])
  /\ UNCHANGED <<workload, family, compressed, compatAns, sigAns>>
  /\ UNCHANGED <<all_objs, all_writes, num_elems_per_txn>>
  /\ UNCHANGED notPair

CompatInit ==
  /\ RestIdle
  /\ SchedIdle
  /\ BloomIdle
  /\ AnalyzeIdle
  /\ \E a \in AllShapes, b \in AllShapes : workload = PairOf(a, b)
  /\ family = None
  /\ compressed = <<>>
  /\ compatAns = "unset"
  /\ sigAns = "unset"
  /\ mergeAns = None
  /\ all_objs = <<>>
  /\ all_writes = <<>>
  /\ num_elems_per_txn = 0

CompatNext ==
  \/ EvalCompat
  \/ EvalMerge

SpecCompat == CompatInit /\ [][CompatNext]_vars

-----------------------------------------------------------------------------
(* make_workload: the objects and the write flags are sampled (with        *)
(* replacement), cut into num_txn runs of num_elems_per_txn, and each run  *)
(* becomes one transaction.                                                *)

\* "for id, objs, writes in zip(range(num_txn), txn_objs, txn_writes)"
MakeWorkloadTxns(num_txn, per_txn, objs, writes) ==
  [t \in 1 .. num_txn |->
     LET run == ((t - 1) * per_txn + 1) .. (t * per_txn)
         write_set == { objs[j] : j \in { i \in run : writes[i] } }
         read_set == { objs[j] : j \in { i \in run : ~ writes[i] } }
     IN  Transaction({t - 1}, ExactSet(read_set), ExactSet(write_set))]

MakeWorkload ==
  /\ workload = <<>>
  /\ workload' = MakeWorkloadTxns(Len(all_objs) \div num_elems_per_txn,
                                  num_elems_per_txn, all_objs, all_writes)
  /\ UNCHANGED <<family, compressed, compatAns, sigAns, mergeAns,
                 all_objs, all_writes, num_elems_per_txn>>
  /\ UNCHANGED notPair

WorkloadInit ==
  /\ RestIdle
  /\ SchedIdle
  /\ BloomIdle
  /\ AnalyzeIdle
  /\ workload = <<>>
  /\ family = None
  /\ compressed = <<>>
  /\ compatAns = "unset"
  /\ sigAns = "unset"
  /\ mergeAns = None
  /\ num_elems_per_txn \in 1 .. MaxElems
  /\ \E num_txn \in 1 .. NumTxns :
       /\ all_objs \in [1 .. (num_txn * num_elems_per_txn) -> Objs]
       /\ all_writes \in [1 .. (num_txn * num_elems_per_txn) -> BOOLEAN]

WorkloadNext == MakeWorkload

SpecWorkload == WorkloadInit /\ [][WorkloadNext]_vars

-----------------------------------------------------------------------------
(* compress_workload on a pair, then compat on the compressed pair         *)

Compress ==
  /\ compressed = <<>>
  /\ \E fresh \in FreshForWorkload(workload, family) :
       compressed' = CompressWorkload(workload, family, fresh)
  /\ UNCHANGED <<workload, family, compatAns, sigAns, mergeAns>>
  /\ UNCHANGED <<all_objs, all_writes, num_elems_per_txn>>
  /\ UNCHANGED notPair

EvalSigCompat ==
  /\ compressed # <<>>
  /\ sigAns = "unset"
  /\ sigAns' = CompatCall(compressed[1], compressed[2])
  /\ UNCHANGED <<workload, family, compressed, compatAns, mergeAns>>
  /\ UNCHANGED <<all_objs, all_writes, num_elems_per_txn>>
  /\ UNCHANGED notPair

SigInit ==
  /\ RestIdle
  /\ SchedIdle
  /\ BloomIdle
  /\ AnalyzeIdle
  /\ \E a \in AllShapes, b \in AllShapes : workload = PairOf(a, b)
  /\ family \in ParallelFamilies
  /\ compressed = <<>>
  /\ compatAns = "unset"
  /\ sigAns = "unset"
  /\ mergeAns = None
  /\ all_objs = <<>>
  /\ all_writes = <<>>
  /\ num_elems_per_txn = 0

SigNext ==
  \/ Compress
  \/ EvalSigCompat

SpecSig == SigInit /\ [][SigNext]_vars

-----------------------------------------------------------------------------
(* One signature under add and union                                       *)

MultLists(k) == [1 .. k -> Mults]

BloomFamilies ==
  { MakeBloomFilterFamily("F", SigLen, mults) :
      mults \in UNION { MultLists(k) : k \in 0 .. MaxHashes } }

SigAdd(x) ==
  /\ sig' = SetAdd(sig, x)
  /\ added' = added \cup {x}
  /\ UNCHANGED <<peer, unioned, stranger, out>>
  /\ UNCHANGED notBloom

PeerAdd(x) ==
  /\ peer' = SetAdd(peer, x)
  /\ UNCHANGED <<sig, added, unioned, stranger, out>>
  /\ UNCHANGED notBloom

\* s = s | other
SigUnion ==
  /\ ~ IsError(SetOr(sig, peer))
  /\ sig' = SetOr(sig, peer)
  /\ unioned' = TRUE
  /\ UNCHANGED <<peer, added, stranger, out>>
  /\ UNCHANGED notBloom

\* s = other | s
SigUnionRight ==
  /\ ~ IsError(SetOr(peer, sig))
  /\ sig' = SetOr(peer, sig)
  /\ unioned' = TRUE
  /\ UNCHANGED <<peer, added, stranger, out>>
  /\ UNCHANGED notBloom

\* a second call of make_bloom_filter_family(m, k) with the m and k of
\* fam: its hash functions are closures of their own, here in the case
\* where they drew the multipliers that fam drew
IndependentBloomFamily(fam) ==
  MakeBloomFilterFamily("G", fam.len,
                        [i \in 1 .. Len(fam.hash_fns) |-> fam.hash_fns[i].mult])

\* a second call of make_parallel_bloom_filter_family(m, n)
IndependentParallelFamily(fam) ==
  MakeParallelBloomFilterFamily("G", SigLen, Len(fam.part_families),
    [i \in 1 .. Len(fam.part_families) |-> fam.part_families[i].hash_fns[1].mult])

Computed(op, arg, value) == [op |-> op, arg |-> arg, value |-> value]

\* s | s
SelfUnion ==
  /\ out' = Computed("or_self", sig, SetOr(sig, sig))
  /\ UNCHANGED <<sig, peer, added, unioned, stranger>>
  /\ UNCHANGED notBloom

\* s & s
SelfIntersect ==
  /\ out' = Computed("and_self", sig, SetAnd(sig, sig))
  /\ UNCHANGED <<sig, peer, added, unioned, stranger>>
  /\ UNCHANGED notBloom

\* s | t and t | s, t made by another family
CrossUnion ==
  /\ \/ out' = Computed("or_cross", sig, SetOr(sig, stranger))
     \/ out' = Computed("or_cross", stranger, SetOr(stranger, sig))
  /\ UNCHANGED <<sig, peer, added, unioned, stranger>>
  /\ UNCHANGED notBloom

\* s & t and t & s, t made by another family
CrossIntersect ==
  /\ \/ out' = Computed("and_cross", sig, SetAnd(sig, stranger))
     \/ out' = Computed("and_cross", stranger, SetAnd(stranger, sig))
  /\ UNCHANGED <<sig, peer, added, unioned, stranger>>
  /\ UNCHANGED notBloom

\* s & other, both of one family
PeerIntersect ==
  /\ out' = Computed("and_peer", sig, SetAnd(sig, peer))
  /\ UNCHANGED <<sig, peer, added, unioned, stranger>>
  /\ UNCHANGED notBloom

\* bool(s), and bool(s & other) of an intersection just computed
EvalBool ==
  /\ \/ out' = Computed("bool", sig, PyBool(SetBool(sig)))
     \/ /\ out.op = "and_peer"
        /\ ~ IsError(out.value)
        /\ out' = Computed("bool", out.value, PyBool(SetBool(out.value)))
  /\ UNCHANGED <<sig, peer, added, unioned, stranger>>
  /\ UNCHANGED notBloom

\* c = copy.copy(s)
Copy ==
  /\ out' = Computed("copy", sig, SetCopy(sig))
  /\ UNCHANGED <<sig, peer, added, unioned, stranger>>
  /\ UNCHANGED notBloom

\* c.add(x) on the copy
CopyAdd(x) ==
  /\ out.op = "copy"
  /\ ~ IsError(out.value)
  /\ out' = [out EXCEPT !.value = SetAdd(out.value, x)]
  /\ UNCHANGED <<sig, peer, added, unioned, stranger>>
  /\ UNCHANGED notBloom

\* s.remove(x): s is what remove left of it, unless remove raised
Remove(x) ==
  /\ out' = Computed("remove", sig, SetRemove(sig, x))
  /\ sig' = IF IsError(SetRemove(sig, x)) THEN sig ELSE SetRemove(sig, x)
  /\ UNCHANGED <<peer, added, unioned, stranger>>
  /\ UNCHANGED notBloom

\* len(s)
Length ==
  /\ out' = Computed("len", sig, SetLen(sig))
  /\ UNCHANGED <<sig, peer, added, unioned, stranger>>
  /\ UNCHANGED notBloom

BloomInit ==
  /\ RestIdle
  /\ SchedIdle
  /\ PairIdle
  /\ AnalyzeIdle
  /\ \/ \E fam \in BloomFamilies :
          /\ sig \in { NewBloomFilter(fam, b) : b \in FreshBits(fam.len) }
          /\ peer \in { NewBloomFilter(fam, b) : b \in FreshBits(fam.len) }
          /\ stranger \in { NewBloomFilter(IndependentBloomFamily(fam), b) :
                               b \in FreshBits(fam.len) }
     \/ \E fam \in ParallelFamilies :
          /\ sig \in { NewParallelBloomFilter(fam, b) : b \in FreshParallelBits(fam) }
          /\ peer \in { NewParallelBloomFilter(fam, b) : b \in FreshParallelBits(fam) }
          /\ stranger \in { NewParallelBloomFilter(IndependentParallelFamily(fam), b) :
                               b \in FreshParallelBits(fam) }
  /\ added = {}
  /\ unioned = FALSE
  /\ out = NoOut

BloomNext ==
  \/ \E x \in Objs : SigAdd(x)
  \/ \E x \in Objs : PeerAdd(x)
  \/ SigUnion
  \/ SigUnionRight
  \/ SelfUnion
  \/ SelfIntersect
  \/ CrossUnion
  \/ CrossIntersect
  \/ PeerIntersect
  \/ EvalBool
  \/ Copy
  \/ \E x \in Objs : CopyAdd(x)
  \/ \E x \in Objs : Remove(x)
  \/ Length

SpecBloom == BloomInit /\ [][BloomNext]_vars

-----------------------------------------------------------------------------
(* check_consistency (src/runner/analyze.py): the log is read one event    *)
(* at a time; any event may come next, and the log may end at any point.   *)

\* fault variant: only the writes of txnA are compared
conflictWritesOnly(txnA, txnB) ==
  \E w \in txnA.writes : w \in txnB.reads \/ w \in txnB.writes

\* fault variant: only the reads of txnA are compared
conflictReadsOnly(txnA, txnB) ==
  \E r \in txnA.reads : r \in txnB.writes

\* fault variant: any shared object counts, two reads of it included
conflictSharedObject(txnA, txnB) ==
  (txnA.reads \cup txnA.writes) \cap (txnB.reads \cup txnB.writes) # {}

conflict(txnA, txnB) ==
  \/ \E w \in txnA.writes : w \in txnB.reads \/ w \in txnB.writes
  \/ \E r \in txnA.reads : r \in txnB.writes

\* sys.exit(message): the message names a rule and a transaction
Exit(rule, txn_id) == [rule |-> rule, txn_id |-> txn_id]

\* d[k] = v on a Python dict
Put(d, k, v) == [x \in DOMAIN d \cup {k} |-> IF x = k THEN v ELSE d[x]]

\* fault variant: the entry stays in the dict
DelKeeps(d, k) == d

\* del d[k]
Del(d, k) == [x \in DOMAIN d \ {k} |-> d[x]]

EventIds == 0 .. NumTxns

EventPuppets == 0 .. NumLanes

EventTimes == 0 .. MaxTime

KeyError == [error |-> "KeyError"]

\* fault variant: the diagnostic is recorded and the loop goes on
HaltKeepsReading(rule, txn_id) ==
  /\ apc' = "loop"
  /\ exit_msg' = Exit(rule, txn_id)
  /\ UNCHANGED <<submitted, scheduled, done, submit_times, schedule_times,
                 done_times, active_txns, puppet_busy_time, first_submit_time,
                 last_done_time>>

Halt(rule, txn_id) ==
  /\ apc' = "exit"
  /\ exit_msg' = Exit(rule, txn_id)
  /\ UNCHANGED <<submitted, scheduled, done, submit_times, schedule_times,
                 done_times, active_txns, puppet_busy_time, first_submit_time,
                 last_done_time>>

\* fault variant: a submit is recorded without looking at submitted
HandleSubmitUnchecked(time, txn_id) ==
  /\ apc = "loop"
  /\ submitted' = submitted \cup {txn_id}
  /\ submit_times' = Append(submit_times, time)
  /\ first_submit_time' =
       IF first_submit_time = <<>> \/ time < first_submit_time[1]
         THEN <<time>>
         ELSE first_submit_time
  /\ UNCHANGED <<scheduled, done, schedule_times, done_times,
                 active_txns, puppet_busy_time, last_done_time, apc,
                 exit_msg>>
  /\ UNCHANGED <<txn_map, num_puppets, utilization, csv_lines>>
  /\ UNCHANGED notAnalyze

\* an event of kind 'submit'
HandleSubmit(time, txn_id) ==
  /\ apc = "loop"
  /\ IF txn_id \in submitted
       THEN Halt("submitted more than once", txn_id)
       ELSE /\ submitted' = submitted \cup {txn_id}
            /\ submit_times' = Append(submit_times, time)
            /\ first_submit_time' =
                 IF first_submit_time = <<>> \/ time < first_submit_time[1]
                   THEN <<time>>
                   ELSE first_submit_time
            /\ UNCHANGED <<scheduled, done, schedule_times, done_times,
                           active_txns, puppet_busy_time, last_done_time, apc,
                           exit_msg>>
  /\ UNCHANGED <<txn_map, num_puppets, utilization, csv_lines>>
  /\ UNCHANGED notAnalyze

\* an event of kind 'scheduled'
HandleScheduled(time, txn_id, puppet_id) ==
  /\ apc = "loop"
  /\ IF txn_id \notin submitted
       THEN Halt("scheduled without being submitted first", txn_id)
     ELSE IF txn_id \in scheduled
       THEN Halt("scheduled more than once", txn_id)
     ELSE IF puppet_id < 0 \/ puppet_id >= num_puppets
       THEN Halt("Puppet ID out of valid range", txn_id)
     ELSE IF txn_id \notin DOMAIN txn_map
       THEN \* txn_map[e.txn_id] raises KeyError, which nothing catches
            /\ apc' = "crash"
            /\ exit_msg' = KeyError
            /\ UNCHANGED <<submitted, scheduled, done, submit_times,
                           schedule_times, done_times, active_txns,
                           puppet_busy_time, first_submit_time, last_done_time>>
     ELSE LET new_txn == txn_map[txn_id]
          IN  IF \E k \in DOMAIN active_txns : conflict(new_txn, active_txns[k][1])
                THEN Halt("Conflict detected when scheduling txn", txn_id)
                ELSE /\ active_txns' = Put(active_txns, txn_id, <<new_txn, puppet_id>>)
                     /\ scheduled' = scheduled \cup {txn_id}
                     /\ schedule_times' = Put(schedule_times, txn_id, <<time, puppet_id>>)
                     /\ UNCHANGED <<submitted, done, submit_times, done_times,
                                    puppet_busy_time, first_submit_time,
                                    last_done_time, apc, exit_msg>>
  /\ UNCHANGED <<txn_map, num_puppets, utilization, csv_lines>>
  /\ UNCHANGED notAnalyze

\* fault variant: the puppet of a done event is not compared with the
\* puppet the transaction was scheduled on
HandleDoneAnyPuppet(time, txn_id, puppet_id) ==
  /\ apc = "loop"
  /\ IF txn_id \notin scheduled
       THEN Halt("completed without being scheduled first", txn_id)
     ELSE IF txn_id \in done
       THEN Halt("completed more than once", txn_id)
     ELSE IF txn_id \notin DOMAIN active_txns
       THEN Halt("done but not in active set", txn_id)
     ELSE LET start_time == schedule_times[txn_id][1]
          IN  /\ puppet_busy_time' =
                   Put(puppet_busy_time, puppet_id,
                       (IF puppet_id \in DOMAIN puppet_busy_time
                          THEN puppet_busy_time[puppet_id] ELSE 0)
                         + (time - start_time))
              /\ done' = done \cup {txn_id}
              /\ done_times' = Put(done_times, txn_id, time)
              /\ last_done_time' = <<time>>
              /\ active_txns' = Del(active_txns, txn_id)
              /\ UNCHANGED <<submitted, scheduled, submit_times, schedule_times,
                             first_submit_time, apc, exit_msg>>
  /\ UNCHANGED <<txn_map, num_puppets, utilization, csv_lines>>
  /\ UNCHANGED notAnalyze

\* an event of kind 'done'
HandleDone(time, txn_id, puppet_id) ==
  /\ apc = "loop"
  /\ IF txn_id \notin scheduled
       THEN Halt("completed without being scheduled first", txn_id)
     ELSE IF txn_id \in done
       THEN Halt("completed more than once", txn_id)
     ELSE IF txn_id \notin DOMAIN active_txns
       THEN Halt("done but not in active set", txn_id)
     ELSE IF active_txns[txn_id][2] # puppet_id
       THEN Halt("Puppet ID mismatch on done", txn_id)
     ELSE LET start_time == schedule_times[txn_id][1]
          IN  /\ puppet_busy_time' =
                   Put(puppet_busy_time, puppet_id,
                       (IF puppet_id \in DOMAIN puppet_busy_time
                          THEN puppet_busy_time[puppet_id] ELSE 0)
                         + (time - start_time))
              /\ done' = done \cup {txn_id}
              /\ done_times' = Put(done_times, txn_id, time)
              /\ last_done_time' = <<time>>
              /\ active_txns' = Del(active_txns, txn_id)
              /\ UNCHANGED <<submitted, scheduled, submit_times, schedule_times,
                             first_submit_time, apc, exit_msg>>
  /\ UNCHANGED <<txn_map, num_puppets, utilization, csv_lines>>
  /\ UNCHANGED notAnalyze

\* fault variant: the success message is printed without the terminal loops
EndOfLogUnchecked ==
  /\ apc = "loop"
  /\ apc' = "passed"
  /\ exit_msg' = exit_msg
  /\ UNCHANGED <<txn_map, num_puppets, submitted, scheduled, done,
                 submit_times, schedule_times, done_times, active_txns,
                 puppet_busy_time, first_submit_time, last_done_time,
                 utilization, csv_lines>>
  /\ UNCHANGED notAnalyze

\* the log is exhausted: the two terminal loops, then the success message
EndOfLog ==
  /\ apc = "loop"
  /\ IF submitted \ scheduled # {}
       THEN /\ apc' = "exit"
            /\ \E txn_id \in submitted \ scheduled :
                 exit_msg' = Exit("submitted but never scheduled", txn_id)
       ELSE IF scheduled \ done # {}
         THEN /\ apc' = "exit"
              /\ \E txn_id \in scheduled \ done :
                   exit_msg' = Exit("scheduled but never completed", txn_id)
         ELSE /\ apc' = "passed"
              /\ exit_msg' = exit_msg
  /\ UNCHANGED <<txn_map, num_puppets, submitted, scheduled, done,
                 submit_times, schedule_times, done_times, active_txns,
                 puppet_busy_time, first_submit_time, last_done_time,
                 utilization, csv_lines>>
  /\ UNCHANGED notAnalyze

ZeroDivisionError == [error |-> "ZeroDivisionError"]

SeqMax(q) == CHOOSE x \in { q[i] : i \in DOMAIN q } : \A i \in DOMAIN q : q[i] <= x

SeqMin(q) == CHOOSE x \in { q[i] : i \in DOMAIN q } : \A i \in DOMAIN q : x <= q[i]

\* "100.0 * busy / total_wall_time if total_wall_time > 0 else 0.0", as the
\* fraction <<numerator, denominator>>
Utilization(busy, total_wall_time) ==
  IF total_wall_time > 0 THEN <<100 * busy, total_wall_time>> ELSE <<0, 1>>

\* the metrics printed after the success message: the submission rate
\* divides by max(submit_times) - min(submit_times); the utilization is
\* printed for every puppet when a submit and a done were seen
ReportMetrics ==
  /\ apc = "passed"
  /\ IF Len(submit_times) > 1 /\ SeqMax(submit_times) - SeqMin(submit_times) = 0
       THEN /\ apc' = "crash"
            /\ exit_msg' = ZeroDivisionError
            /\ utilization' = utilization
       ELSE /\ apc' = "reported"
            /\ exit_msg' = exit_msg
            /\ utilization' =
                 IF last_done_time # <<>> /\ first_submit_time # <<>>
                   THEN [puppet_id \in 0 .. (num_puppets - 1) |->
                           Utilization(IF puppet_id \in DOMAIN puppet_busy_time
                                         THEN puppet_busy_time[puppet_id]
                                         ELSE 0,
                                       last_done_time[1] - first_submit_time[1])]
                   ELSE EmptyMap
  /\ UNCHANGED <<txn_map, num_puppets, submitted, scheduled, done,
                 submit_times, schedule_times, done_times, active_txns,
                 puppet_busy_time, first_submit_time, last_done_time, csv_lines>>
  /\ UNCHANGED notAnalyze

\* the reads and writes of one line of the transactions file
FileShapes == { [reads |-> sh.r, writes |-> sh.w] : sh \in ExactShapes }

AnalyzeInit ==
  /\ RestIdle
  /\ SchedIdle
  /\ PairIdle
  /\ BloomIdle
  /\ txn_map \in [0 .. (NumTxns - 1) -> FileShapes]
  /\ num_puppets = NumLanes
  /\ submitted = {}
  /\ scheduled = {}
  /\ done = {}
  /\ submit_times = <<>>
  /\ schedule_times = EmptyMap
  /\ done_times = EmptyMap
  /\ active_txns = EmptyMap
  /\ puppet_busy_time = EmptyMap
  /\ first_submit_time = <<>>
  /\ last_done_time = <<>>
  /\ apc = "loop"
  /\ exit_msg = None
  /\ utilization = None
  /\ csv_lines = <<>>

AnalyzeNext ==
  \/ \E t \in EventTimes, i \in EventIds : HandleSubmit(t, i)
  \/ \E t \in EventTimes, i \in EventIds, p \in EventPuppets : HandleScheduled(t, i, p)
  \/ \E t \in EventTimes, i \in EventIds, p \in EventPuppets : HandleDone(t, i, p)
  \/ EndOfLog
  \/ ReportMetrics

SpecAnalyze == AnalyzeInit /\ [][AnalyzeNext]_vars

(* ----------------------------------------------------------------------- *)
(* parse_transactions_csv                                                   *)
(* ----------------------------------------------------------------------- *)

MaxLines == 3

MaxFields == 2

\* a comma-separated field: text that int() accepts, or text it rejects
IntField(n) == [int |-> n]

TextField == [text |-> "x"]

Fields == { IntField(n) : n \in 0 .. 1 } \cup { TextField }

\* a line that is empty once stripped
BlankLine == [blank |-> TRUE]

\* line.split(','): parts[0] and parts[1:]
CsvLines ==
  { BlankLine } \cup
  { [aux |-> a, objs |-> o] :
      a \in { IntField(0), TextField },
      o \in UNION { [1 .. n -> Fields] : n \in 0 .. MaxFields } }

ValueError == [error |-> "ValueError"]

\* the loop "for i in range(0, len(objs), 2)" from pair number k on; a
\* field that int() rejects raises ValueError, which nothing catches here
RECURSIVE ReadPairs(_, _, _, _)
ReadPairs(objs, k, reads, writes) ==
  IF 2 * k - 1 > Len(objs) THEN [reads |-> reads, writes |-> writes]
  ELSE LET objid == objs[2 * k - 1]
           writeflag == objs[2 * k]
       IN  IF objid = TextField \/ writeflag = TextField THEN ValueError
           ELSE IF writeflag.int # 0
             THEN ReadPairs(objs, k + 1, reads, Append(writes, objid.int))
             ELSE ReadPairs(objs, k + 1, Append(reads, objid.int), writes)

\* the loop "for lineno, line in enumerate(fileobj, 1)" from lineno on;
\* "return txn_map" is the record [txn_map |-> map]
RECURSIVE ParseFrom(_, _, _)
ParseFrom(lines, lineno, map) ==
  IF lineno > Len(lines) THEN [txn_map |-> map]
  ELSE LET line == lines[lineno]
       IN  IF line = BlankLine THEN ParseFrom(lines, lineno + 1, map)
           ELSE IF line.aux = TextField
             THEN Exit("Error parsing aux_data at line", lineno)
           ELSE IF Len(line.objs) % 2 # 0
             THEN Exit("incomplete objid/writeflag pairs", lineno)
           ELSE LET txn == ReadPairs(line.objs, 1, <<>>, <<>>)
                IN  IF IsError(txn) THEN txn
                    ELSE ParseFrom(lines, lineno + 1, Put(map, lineno - 1, txn))

ParseTransactionsCsv(lines) == ParseFrom(lines, 1, EmptyMap)

\* main() reads the transactions file
ParseFile ==
  /\ apc = "parse"
  /\ LET parsed == ParseTransactionsCsv(csv_lines)
     IN  IF IsError(parsed)
           THEN apc' = "crash" /\ exit_msg' = parsed /\ txn_map' = txn_map
         ELSE IF "rule" \in DOMAIN parsed
           THEN apc' = "exit" /\ exit_msg' = parsed /\ txn_map' = txn_map
         ELSE apc' = "parsed" /\ exit_msg' = exit_msg /\ txn_map' = parsed.txn_map
  /\ UNCHANGED <<num_puppets, submitted, scheduled, done, submit_times,
                 schedule_times, done_times, active_txns, puppet_busy_time,
                 first_submit_time, last_done_time, utilization, csv_lines>>
  /\ UNCHANGED notAnalyze

ParseInit ==
  /\ RestIdle
  /\ SchedIdle
  /\ PairIdle
  /\ BloomIdle
  /\ csv_lines \in UNION { [1 .. n -> CsvLines] : n \in 0 .. MaxLines }
  /\ txn_map = EmptyMap
  /\ num_puppets = 0
  /\ submitted = {}
  /\ scheduled = {}
  /\ done = {}
  /\ submit_times = <<>>
  /\ schedule_times = EmptyMap
  /\ done_times = EmptyMap
  /\ active_txns = EmptyMap
  /\ puppet_busy_time = EmptyMap
  /\ first_submit_time = <<>>
  /\ last_done_time = <<>>
  /\ apc = "parse"
  /\ exit_msg = None
  /\ utilization = None

ParseNext == ParseFile

SpecParse == ParseInit /\ [][ParseNext]_vars

(* ----------------------------------------------------------------------- *)
(* parse_log                                                                *)
(* ----------------------------------------------------------------------- *)

MaxLogLines == 3

\* the text captured by "([0-9.]+)": one that float() accepts, or one it
\* rejects, such as "1.2.3"
TimeField(t) == [float |-> t]

BadTime == [text |-> "1.2.3"]

\* a stripped line, by what the four patterns find in it: whether init_re
\* matches, which of submit_re, scheduled_re and done_re match, and the
\* time, the transaction id and the puppet written in it
LogLines ==
  { BlankLine } \cup
  { [noise |-> n, matches |-> ms, time |-> t, txn_id |-> i, puppet_id |-> NumLanes] :
      n \in BOOLEAN,
      ms \in { {}, {"submit"}, {"scheduled"}, {"done"}, {"submit", "scheduled"} },
      t \in { TimeField(0), BadTime },
      i \in 0 .. (NumTxns - 1) }

\* the groups of the three event patterns, in the order of their parentheses
SubmitGroups(line) == <<line.time, line.txn_id>>

ScheduledGroups(line) == <<line.time, line.txn_id, line.puppet_id>>

DoneGroups(line) == <<line.time, line.puppet_id, line.txn_id>>

LogEntry(kind, time, txn_id, puppet_id) ==
  [kind |-> kind, time |-> time, txn_id |-> txn_id, puppet_id |-> puppet_id]

\* fault variant: the new event is put in front of the list
PrependEvent(list, e) == <<e>> \o list

\* events.append(e)
AppendEvent(list, e) == Append(list, e)

\* the event made from one line that is neither blank nor noise; float() of
\* a rejected text raises ValueError, which nothing catches
EventOf(line) ==
  IF "submit" \in line.matches
    THEN LET g == SubmitGroups(line)
         IN  IF g[1] = BadTime THEN ValueError
             ELSE LogEntry("submit", g[1].float, g[2], None)
  ELSE IF "scheduled" \in line.matches
    THEN LET g == ScheduledGroups(line)
         IN  IF g[1] = BadTime THEN ValueError
             ELSE LogEntry("scheduled", g[1].float, g[2], g[3])
  ELSE IF "done" \in line.matches
    THEN LET g == DoneGroups(line)
         IN  IF g[1] = BadTime THEN ValueError
             ELSE LogEntry("done", g[1].float, g[3], g[2])
  ELSE Exit("Failed to parse", line)

\* the loop "for line in fileobj" from line k on; "return events" is the
\* record [events |-> list]
RECURSIVE ParseLogFrom(_, _, _)
ParseLogFrom(lines, k, list) ==
  IF k > Len(lines) THEN [events |-> list]
  ELSE LET line == lines[k]
       IN  IF line = BlankLine THEN ParseLogFrom(lines, k + 1, list)
           ELSE IF line.noise THEN ParseLogFrom(lines, k + 1, list)
           ELSE LET e == EventOf(line)
                IN  IF "kind" \in DOMAIN e
                      THEN ParseLogFrom(lines, k + 1, AppendEvent(list, e))
                      ELSE e

ParseLog(lines) == ParseLogFrom(lines, 1, <<>>)

\* main() reads the log file
ParseLogFile ==
  /\ lpc = "parse_log"
  /\ LET parsed == ParseLog(log_lines)
     IN  IF IsError(parsed)
           THEN lpc' = "crash" /\ log_msg' = parsed /\ events' = events
         ELSE IF "rule" \in DOMAIN parsed
           THEN lpc' = "exit" /\ log_msg' = parsed /\ events' = events
         ELSE lpc' = "returned" /\ log_msg' = log_msg /\ events' = parsed.events
  /\ UNCHANGED log_lines
  /\ UNCHANGED notLog

LogInit ==
  /\ SchedIdle
  /\ PairIdle
  /\ BloomIdle
  /\ AnalyzeIdle
  /\ conflictAns = None
  /\ CuckooIdle
  /\ GenIdle
  /\ log_lines \in UNION { [1 .. n -> LogLines] : n \in 0 .. MaxLogLines }
  /\ events = <<>>
  /\ lpc = "parse_log"
  /\ log_msg = None

LogNext == ParseLogFile

SpecLog == LogInit /\ [][LogNext]_vars

(* ----------------------------------------------------------------------- *)
(* conflict() of the analyzer and compat() of the scheduler on one pair     *)
(* ----------------------------------------------------------------------- *)

\* the analyzer's Transaction(reads, writes) holding the sets of a
\* scheduler transaction
FileTxn(t) == [reads |-> t.read_set.elems, writes |-> t.write_set.elems]

\* conflict(A, B) and conflict(B, A)
EvalConflict ==
  /\ conflictAns = None
  /\ workload # <<>>
  /\ conflictAns' = [ab |-> conflict(FileTxn(workload[1]), FileTxn(workload[2])),
                     ba |-> conflict(FileTxn(workload[2]), FileTxn(workload[1]))]
  /\ UNCHANGED notConflict

ConflictNext ==
  \/ EvalCompat
  \/ EvalConflict

SpecConflict == CompatInit /\ [][ConflictNext]_vars

(* ----------------------------------------------------------------------- *)
(* CuckooHashTable beside a reference dict (src/model/hash_table.py)        *)
(* Python bucket idx is position idx + 1 of has and data.                   *)
(* ----------------------------------------------------------------------- *)

NumBuckets == 3

NumKeys == 4

NumValues == 2

MaxSets == 3

CuckooKeys == 0 .. (NumKeys - 1)

CuckooValues == 0 .. (NumValues - 1)

MemoryError == [error |-> "MemoryError"]

\* my_hash: a multiplication by the constant of table a, modulo the number
\* of buckets
HashFn(key, a) == (key * hash_fn[a + 1]) % NumBuckets

\* the tuple (key, value)
KV(key, value) == [key |-> key, value |-> value]

\* "for attempt in range(self.num_tables)" of __getitem__ and __setitem__,
\* from attempt on: the bucket holding key, or no bucket; self.data[idx][0]
\* on a bucket whose bit is set and whose entry is None raises TypeError
RECURSIVE FindKey(_, _, _, _)
FindKey(h, d, key, attempt) ==
  IF attempt >= num_tables THEN [missing |-> TRUE]
  ELSE LET slot == HashFn(key, attempt) + 1
       IN  IF h[slot] /\ d[slot] = None THEN TypeError
           ELSE IF h[slot] /\ d[slot].key = key
             THEN [idx |-> slot, attempt |-> attempt]
             ELSE FindKey(h, d, key, attempt + 1)

\* the second loop of __setitem__, "for attempt in range(n)", from attempt
\* on: the table it leaves, the exception it raises (or None) and the
\* number it appends to insert_stats
RECURSIVE Evict(_, _, _, _, _)
Evict(h, d, key, value, attempt) ==
  IF attempt >= NumBuckets
    THEN [has |-> h, data |-> d, raised |-> MemoryError, stat |-> 0]
  ELSE LET slot == HashFn(key, attempt % num_tables) + 1
       IN  IF ~ h[slot]
             THEN [has |-> [h EXCEPT ![slot] = TRUE],
                   data |-> [d EXCEPT ![slot] = KV(key, value)],
                   raised |-> None,
                   stat |-> NumBuckets + attempt + 1]
           ELSE IF d[slot] = None
             THEN \* unpacking None into (key, value) raises before
                  \* self.data[idx] is assigned
                  [has |-> h, data |-> d, raised |-> TypeError, stat |-> 0]
             ELSE Evict(h, [d EXCEPT ![slot] = KV(key, value)],
                        d[slot].key, d[slot].value, attempt + 1)

\* table.__setitem__(key, value)
SetItem(h, d, key, value) ==
  LET f == FindKey(h, d, key, 0)
  IN  IF IsError(f) THEN [has |-> h, data |-> d, raised |-> f, stat |-> 0]
      ELSE IF "idx" \in DOMAIN f
        THEN [has |-> [h EXCEPT ![f.idx] = TRUE],
              data |-> [d EXCEPT ![f.idx] = KV(key, value)],
              raised |-> None,
              stat |-> f.attempt + 1]
        ELSE Evict(h, d, key, value, 0)

\* table.__getitem__(key): the value, or the exception
GetItem(h, d, key) ==
  LET f == FindKey(h, d, key, 0)
  IN  IF IsError(f) THEN f
      ELSE IF "idx" \in DOMAIN f THEN [value |-> d[f.idx].value]
      ELSE KeyError

\* one iteration of fuzz_test: "mine[k] = v; ref[k] = v"
Assign(k, v) ==
  /\ cpc = "run"
  /\ Len(insert_stats) < MaxSets
  /\ LET r == SetItem(has, data, k, v)
     IN  /\ has' = r.has
         /\ data' = r.data
         /\ IF r.raised = None
              THEN /\ insert_stats' = Append(insert_stats, r.stat)
                   /\ ref' = Put(ref, k, v)
                   /\ UNCHANGED <<cpc, cerr>>
              ELSE /\ cpc' = "error"
                   /\ cerr' = r.raised
                   /\ UNCHANGED <<insert_stats, ref>>
  /\ got' = None
  /\ UNCHANGED <<hash_fn, num_tables>>
  /\ UNCHANGED notCuckoo

\* table[k] is evaluated
Fetch(k) ==
  /\ cpc = "run"
  /\ got = None
  /\ got' = [key |-> k, value |-> GetItem(has, data, k)]
  /\ UNCHANGED <<hash_fn, num_tables, has, data, insert_stats, ref, cpc, cerr>>
  /\ UNCHANGED notCuckoo

\* CuckooHashTable(num_buckets, num_tables, hash_fn): bitarray(num_buckets)
\* leaves the bits as they are in memory, here at most MaxStale of them set
CuckooInit ==
  /\ SchedIdle
  /\ PairIdle
  /\ BloomIdle
  /\ AnalyzeIdle
  /\ LogIdle
  /\ conflictAns = None
  /\ GenIdle
  /\ num_tables = 2
  /\ hash_fn \in [1 .. 2 -> 1 .. 2]
  /\ has \in { h \in [1 .. NumBuckets -> BOOLEAN] :
                 Cardinality({ i \in 1 .. NumBuckets : h[i] }) <= MaxStale }
  /\ data = [i \in 1 .. NumBuckets |-> None]
  /\ insert_stats = <<>>
  /\ ref = EmptyMap
  /\ got = None
  /\ cpc = "run"
  /\ cerr = None

CuckooNext ==
  \/ \E k \in CuckooKeys, v \in CuckooValues : Assign(k, v)
  \/ \E k \in CuckooKeys : Fetch(k)

SpecCuckoo == CuckooInit /\ [][CuckooNext]_vars

(* ----------------------------------------------------------------------- *)
(* generate_transactions (src/runner/scripts/generate.py)                   *)
(* ----------------------------------------------------------------------- *)

MaxGenTxns == 2

MaxGenObjs == 2

MaxPerTxn == 3

\* "for txn_id in range(n_txns)": the head of one more transaction, with
\* n_accesses = random.randint(1, max_objs_per_txn)
BeginTxn ==
  /\ gpc = "txn"
  /\ gen_txn_id < n_txns
  /\ \E n \in 1 .. max_objs_per_txn : n_accesses' = n
  /\ accesses' = <<>>
  /\ used_objs' = {}
  /\ gpc' = "access"
  /\ UNCHANGED <<n_txns, n_objs, max_objs_per_txn, transactions, gen_txn_id, gen_objid>>
  /\ UNCHANGED notGen

\* "for _ in range(n_accesses)": objid = random.randint(0, n_objs-1)
DrawObj ==
  /\ gpc = "access"
  /\ Len(accesses) < n_accesses
  /\ \E o \in 0 .. (n_objs - 1) : gen_objid' = o
  /\ gpc' = "check"
  /\ UNCHANGED <<n_txns, n_objs, max_objs_per_txn, transactions, gen_txn_id,
                 n_accesses, accesses, used_objs>>
  /\ UNCHANGED notGen

\* "while objid in used_objs: objid = random.randint(0, n_objs-1)"
Redraw ==
  /\ gpc = "check"
  /\ gen_objid \in used_objs
  /\ \E o \in 0 .. (n_objs - 1) : gen_objid' = o
  /\ UNCHANGED <<n_txns, n_objs, max_objs_per_txn, transactions, gen_txn_id,
                 n_accesses, accesses, used_objs, gpc>>
  /\ UNCHANGED notGen

\* the redraw that comes up with an unused object
RedrawUnused == Redraw /\ gen_objid' \notin used_objs

\* the rest of the loop body, once objid is unused
AddAccess ==
  /\ gpc = "check"
  /\ gen_objid \notin used_objs
  /\ used_objs' = used_objs \cup {gen_objid}
  /\ \E writeflag \in 0 .. 1 : accesses' = Append(accesses, <<gen_objid, writeflag>>)
  /\ gpc' = "access"
  /\ UNCHANGED <<n_txns, n_objs, max_objs_per_txn, transactions, gen_txn_id,
                 n_accesses, gen_objid>>
  /\ UNCHANGED notGen

\* the line of the transaction is appended
EndTxn ==
  /\ gpc = "access"
  /\ Len(accesses) = n_accesses
  /\ transactions' = Append(transactions, accesses)
  /\ gen_txn_id' = gen_txn_id + 1
  /\ gpc' = "txn"
  /\ UNCHANGED <<n_txns, n_objs, max_objs_per_txn, n_accesses, accesses,
                 used_objs, gen_objid>>
  /\ UNCHANGED notGen

\* "return transactions"
GenReturn ==
  /\ gpc = "txn"
  /\ gen_txn_id = n_txns
  /\ gpc' = "returned"
  /\ UNCHANGED <<n_txns, n_objs, max_objs_per_txn, transactions, gen_txn_id,
                 n_accesses, accesses, used_objs, gen_objid>>
  /\ UNCHANGED notGen

GenInit ==
  /\ SchedIdle
  /\ PairIdle
  /\ BloomIdle
  /\ AnalyzeIdle
  /\ LogIdle
  /\ conflictAns = None
  /\ CuckooIdle
  /\ n_txns \in 0 .. MaxGenTxns
  /\ n_objs \in 1 .. MaxGenObjs
  /\ max_objs_per_txn \in 1 .. MaxPerTxn
  /\ transactions = <<>>
  /\ gen_txn_id = 0
  /\ n_accesses = 0
  /\ accesses = <<>>
  /\ used_objs = {}
  /\ gen_objid = 0
  /\ gpc = "txn"

GenNext ==
  \/ BeginTxn
  \/ DrawObj
  \/ Redraw
  \/ AddAccess
  \/ EndTxn
  \/ GenReturn

SpecGen == GenInit /\ [][GenNext]_vars

\* the interpreter keeps running, and a draw that is repeated for ever
\* comes up with every value that has a positive probability
SpecGenFair ==
  /\ SpecGen
  /\ WF_vars(GenNext)
  /\ SF_vars(RedrawUnused)

-----------------------------------------------------------------------------
(* Vocabulary of the scheduler properties, stated on the exact sets        *)
(* without reference to compat or merge                                    *)

At(p) == all_txns[p + 1]

Reads(t) == t.read_set.elems

Writes(t) == t.write_set.elems

\* neither writes an object that the other reads or writes
ExactCompatible(a, b) ==
  /\ Writes(a) \cap (Reads(b) \cup Writes(b)) = {}
  /\ Writes(b) \cap (Reads(a) \cup Writes(a)) = {}

Selected == { result[i] : i \in 1 .. Len(result) }

\* the union of the input transactions at the positions P
UnionOf(P) ==
  Transaction(UNION { At(p).ids : p \in P },
              ExactSet(UNION { Reads(At(p)) : p \in P }),
              ExactSet(UNION { Writes(At(p)) : p \in P }))

DistinctSingletonIds ==
  /\ \A i \in 1 .. Len(all_txns) : Cardinality(all_txns[i].ids) = 1
  /\ \A i, j \in 1 .. Len(all_txns) : i # j => all_txns[i].ids # all_txns[j].ids

PositionalIds == \A i \in 1 .. Len(all_txns) : all_txns[i].ids = {i - 1}

IsPowerOfTwo(n) == \E k \in 0 .. n : Pow2(k) = n

Survivor == txns[1]

-----------------------------------------------------------------------------
(* C1: for a non-empty batch with distinct singleton ids (a power-of-two   *)
(* batch for the tournament), every two distinct transactions of the       *)
(* returned list are compatible: neither writes an object the other reads  *)
(* or writes.                                                              *)
C1_ReturnedPairwiseCompatible ==
  ( /\ pc = "done"
    /\ Len(all_txns) >= 1
    /\ DistinctSingletonIds
    /\ sched = "tournament" => IsPowerOfTwo(Len(all_txns)) )
  => \A i, j \in 1 .. Len(result) :
       i # j => ExactCompatible(At(result[i]), At(result[j]))

(* C6: greedy selection correctness.  Every transaction considered so far  *)
(* was chosen exactly when it was compatible with the union of the         *)
(* transactions chosen before it, and the accumulator is that union.       *)
C6_GreedySelection ==
  (sched = "greedy" /\ pc \in {"greedy", "done"}) =>
    LET chosen == { sched_txns[i] : i \in 1 .. Len(sched_txns) }
    IN  /\ main_txn = UnionOf(chosen)
        /\ \A p \in 1 .. (idx - 1) :
             LET before == UnionOf({ q \in chosen : q < p })
             IN  (p \in chosen) <=> ExactCompatible(before, At(p))
        /\ pc = "done" => result = sched_txns /\ idx = Len(all_txns)

C6_Witness ==
  /\ sched = "greedy"
  /\ pc = "done"
  /\ Len(all_txns) = 4
  /\ Selected = {0, 1, 3}

(* C7: the greedy result starts with the first input transaction, is an    *)
(* order-preserving subsequence of the input, and holds no transaction     *)
(* that conflicts with an earlier selected one; T0 writing an object that  *)
(* T1 reads yields T0 alone.                                               *)
C7_GreedyFirstWins ==
  (sched = "greedy" /\ pc = "done") =>
    /\ Len(result) >= 1
    /\ result[1] = 0
    /\ \A i \in 1 .. Len(result) : result[i] \in 0 .. (Len(all_txns) - 1)
    /\ \A i, j \in 1 .. Len(result) : i < j => result[i] < result[j]
    /\ \A i, j \in 1 .. Len(result) :
         i < j => ExactCompatible(At(result[i]), At(result[j]))
    /\ ( /\ Len(all_txns) = 2
         /\ Reads(At(0)) = {}
         /\ Writes(At(0)) # {}
         /\ Reads(At(1)) = Writes(At(0))
         /\ Writes(At(1)) = {} ) => result = <<0>>

C7_Witness ==
  /\ sched = "greedy"
  /\ pc = "done"
  /\ Len(all_txns) = 2
  /\ Reads(At(0)) = {}
  /\ Writes(At(0)) = {1}
  /\ Reads(At(1)) = {1}
  /\ Writes(At(1)) = {}
  /\ result = <<0>>

\* every level of the tournament follows from the one before it: slot j
\* holds the union of pair j when the pair is compatible, its left element
\* when it is not
LeftWinsLevels ==
  \A k \in 1 .. (Len(levels) - 1) :
    /\ Len(levels[k + 1]) * 2 = Len(levels[k])
    /\ \A j \in 1 .. Len(levels[k + 1]) :
         LET L == levels[k][2 * j - 1]
             R == levels[k][2 * j]
         IN  levels[k + 1][j] =
               IF ExactCompatible(L, R)
                 THEN Transaction(L.ids \cup R.ids,
                                  ExactSet(Reads(L) \cup Reads(R)),
                                  ExactSet(Writes(L) \cup Writes(R)))
                 ELSE L

TournamentOver == sched = "tournament" /\ pc = "tournament" /\ Len(txns) = 1

(* C8 as stated: pairs are reduced left-wins at every level; with A        *)
(* conflicting with B, C with D and A compatible with C, the batch         *)
(* A,B,C,D leaves the ids of A and C, and the batch B,A,D,C leaves the     *)
(* ids of B and D.                                                         *)
C8_Original ==
  (sched = "tournament" /\ pc \in {"tournament", "done"}) =>
    /\ LeftWinsLevels
    /\ (TournamentOver /\ Len(all_txns) = 4) =>
         \* the batch read as A,B,C,D
         /\ ( /\ ~ ExactCompatible(At(0), At(1))
              /\ ~ ExactCompatible(At(2), At(3))
              /\ ExactCompatible(At(0), At(2)) )
            => Survivor.ids = At(0).ids \cup At(2).ids
         \* the batch read as B,A,D,C
         /\ ( /\ ~ ExactCompatible(At(1), At(0))
              /\ ~ ExactCompatible(At(3), At(2))
              /\ ExactCompatible(At(1), At(3)) )
            => Survivor.ids = At(0).ids \cup At(2).ids

(* C8 amended: as above, and the batch B,A,D,C leaves the ids of B and D   *)
(* when B is compatible with D; when B conflicts with D it leaves the ids  *)
(* of B alone.                                                             *)
C8_LeftWins ==
  (sched = "tournament" /\ pc \in {"tournament", "done"}) =>
    /\ LeftWinsLevels
    /\ (TournamentOver /\ Len(all_txns) = 4) =>
         /\ ( /\ ~ ExactCompatible(At(0), At(1))
              /\ ~ ExactCompatible(At(2), At(3))
              /\ ExactCompatible(At(0), At(2)) )
            => Survivor.ids = At(0).ids \cup At(2).ids
         /\ ( /\ ~ ExactCompatible(At(1), At(0))
              /\ ~ ExactCompatible(At(3), At(2))
              /\ ExactCompatible(At(1), At(3))
              /\ ExactCompatible(At(0), At(2)) )
            => Survivor.ids = At(0).ids \cup At(2).ids
         /\ ( /\ ~ ExactCompatible(At(1), At(0))
              /\ ~ ExactCompatible(At(3), At(2))
              /\ ExactCompatible(At(1), At(3))
              /\ ~ ExactCompatible(At(0), At(2)) )
            => Survivor.ids = At(0).ids

C8_Witness ==
  /\ TournamentOver
  /\ Len(all_txns) = 4
  /\ ~ ExactCompatible(At(0), At(1))
  /\ ~ ExactCompatible(At(2), At(3))
  /\ ExactCompatible(At(1), At(3))
  /\ ExactCompatible(At(0), At(2))
  /\ Survivor.ids = At(0).ids \cup At(2).ids

(* C9: the tournament returns exactly the input transactions whose ids     *)
(* are in the survivor's id set, whatever the ids of the batch are.        *)
C9_ReturnsSurvivorIds ==
  (sched = "tournament" /\ pc \in {"done", "error"} /\ Len(txns) = 1
     /\ DistinctSingletonIds) =>
    /\ pc = "done"
    /\ Selected = { p \in 0 .. (Len(all_txns) - 1) : At(p).ids \subseteq Survivor.ids }

(* C10: the tournament completes on every batch of n >= 1 transactions,    *)
(* power of two or not, without an assertion failure.                      *)
C10_AnyBatchSize ==
  (sched = "tournament" /\ Len(all_txns) >= 1 /\ PositionalIds) =>
    /\ err # "AssertionError"
    /\ pc # "error"

-----------------------------------------------------------------------------
\* the bit arrays of a signature, part by part
BitsOf(s) ==
  IF s.kind = "bf"
    THEN <<s.bits>>
    ELSE [i \in 1 .. Len(s.parts) |-> s.parts[i].bits]

HashFnsOf(s) ==
  IF s.kind = "bf"
    THEN <<s.hash_fns>>
    ELSE [i \in 1 .. Len(s.parts) |-> s.parts[i].hash_fns]

\* the call went to a CompressedScheduler
Wrapped == c_family # None

\* the list schedule() returned: result holds positions in the list the
\* underlying scheduler was handed
Returned == [i \in 1 .. Len(result) |-> all_txns[result[i] + 1]]

SelectedIds == UNION { Returned[i].ids : i \in 1 .. Len(result) }

(* C12: CompressedScheduler.schedule returns the chosen original           *)
(* transactions: every element of the returned list is an element of the  *)
(* list it was handed.                                                     *)
C12_ReturnsOriginals ==
  (Wrapped /\ pc = "done") =>
    \A i \in 1 .. Len(result) :
      \E k \in 1 .. Len(c_all_txns) : Returned[i] = c_all_txns[k]

(* C13: with ids equal to list positions, the ids CompressedScheduler      *)
(* selects name original transactions that are pairwise compatible under   *)
(* exact-set semantics.                                                    *)
C13_CompressedSelectionSound ==
  (Wrapped /\ pc = "done") =>
    /\ SelectedIds \subseteq 0 .. (Len(c_all_txns) - 1)
    /\ \A a, b \in SelectedIds :
         a # b => ExactCompatible(c_all_txns[a + 1], c_all_txns[b + 1])

C13_Witness ==
  /\ Wrapped
  /\ pc = "done"
  /\ sched = "greedy"
  /\ Len(c_all_txns) = 3
  /\ SelectedIds = {0, 1}
  /\ Writes(c_all_txns[2]) # {}
  /\ ~ ExactCompatible(c_all_txns[1], c_all_txns[3])
  /\ \A i \in 1 .. 3 : TotalOnes(BitsOf(all_txns[i].read_set)) <= 1

(* C16: schedule() leaves its input as it was: the list CompressedScheduler *)
(* was handed, and the list the underlying GreedyScheduler or              *)
(* TournamentScheduler was handed, keep their elements, their order, and   *)
(* every transaction's ids, read_set and write_set.                        *)
C16_InputUnchanged ==
  [][ /\ c_all_txns' = c_all_txns
      /\ pc # "compress" => all_txns' = all_txns ]_vars

C16_Witness ==
  /\ Wrapped
  /\ pc = "done"
  /\ sched = "tournament"
  /\ Len(levels) = 2
  /\ Len(result) = 2

\* the survivors the loop of schedule() leaves when it takes the pairs of
\* every level in list order
RECURSIVE InOrder(_)
InOrder(list) ==
  IF Len(list) <= 1 \/ Len(list) % 2 # 0
    THEN list
    ELSE InOrder(ReduceLevel(list))

(* C11: the tournament result depends on the input order and the left-wins *)
(* rule only.  With the pairs of a level evaluated in any order, each pair *)
(* keeping its slot, every slot holds the left-wins outcome of its pair,   *)
(* every level is the one evaluation in list order gives, and so are the   *)
(* final survivor and the selected ids.                                    *)
C11_OrderIndependent ==
  /\ pc = "level" =>
       \A j \in 1 .. Len(new_txns) :
         new_txns[j] # None =>
           new_txns[j] =
             IF ExactCompatible(txns[2 * j - 1], txns[2 * j])
               THEN Transaction(txns[2 * j - 1].ids \cup txns[2 * j].ids,
                                ExactSet(Reads(txns[2 * j - 1]) \cup Reads(txns[2 * j])),
                                ExactSet(Writes(txns[2 * j - 1]) \cup Writes(txns[2 * j])))
               ELSE txns[2 * j - 1]
  /\ \A k \in 1 .. (Len(levels) - 1) : levels[k + 1] = ReduceLevel(levels[k])
  /\ (pc \in {"tournament", "done"} /\ Len(txns) = 1) => txns = InOrder(all_txns)
  /\ pc = "done" => Selected = InOrder(all_txns)[1].ids

C11_Witness ==
  /\ pc = "level"
  /\ Len(new_txns) = 2
  /\ new_txns[1] = None
  /\ new_txns[2] # None
  /\ new_txns[2].ids = {2}
  /\ ExactCompatible(At(0), At(1))

-----------------------------------------------------------------------------
(* C3: compat on exact sets answers True exactly when                      *)
(* (A.read & B.write) | (A.write & B.read) | (A.write & B.write) is empty, *)
(* and False otherwise.                                                    *)
C3_CompatIffNoConflict ==
  compatAns # "unset" =>
    LET A == workload[1]
        B == workload[2]
        overlap == (Reads(A) \cap Writes(B)) \cup (Writes(A) \cap Reads(B))
                     \cup (Writes(A) \cap Writes(B))
    IN  compatAns = IF overlap = {} THEN "True" ELSE "False"

C3_Witness ==
  /\ compatAns = "False"
  /\ Reads(workload[1]) \cap Writes(workload[2]) # {}
  /\ Writes(workload[1]) = {}

(* C4: signature soundness.  When the exact transactions A and B are not   *)
(* compatible, compat on their compressed versions (one parallel family)   *)
(* answers False.                                                          *)
C4_SignatureSoundness ==
  (sigAns # "unset" /\ ~ ExactCompatible(workload[1], workload[2]))
    => sigAns = "False"

C4_Witness ==
  /\ sigAns = "False"
  /\ ~ ExactCompatible(workload[1], workload[2])

(* C5: no false negatives.  Every element add() was called with on s is    *)
(* reported present, after any later adds and after s was replaced by a    *)
(* union with a signature of the same family.                              *)
C5_NoFalseNegatives ==
  sig # None => \A x \in added : SetContains(sig, x)

C5_Witness ==
  /\ unioned
  /\ added # {}
  /\ added # Objs
  /\ \A x \in Objs : SetContains(sig, x)

(* C22: every transaction make_workload builds has disjoint read_set and   *)
(* write_set, whatever objects and write flags were sampled.               *)
C22_WorkloadDisjoint ==
  \A t \in 1 .. Len(workload) :
    Reads(workload[t]) \cap Writes(workload[t]) = {}

(* C14: for compatible A and B, merge(A, B) returns the transaction whose  *)
(* ids, read_set and write_set are the unions of those of A and B, and     *)
(* the call leaves A and B as they were.                                   *)
C14_MergeUnions ==
  [][ ( /\ mergeAns = None
        /\ mergeAns' # None
        /\ ExactCompatible(workload[1], workload[2]) )
      => /\ mergeAns' =
              Transaction(workload[1].ids \cup workload[2].ids,
                          ExactSet(Reads(workload[1]) \cup Reads(workload[2])),
                          ExactSet(Writes(workload[1]) \cup Writes(workload[2])))
         /\ workload' = workload ]_vars

C14_Witness ==
  /\ mergeAns # None
  /\ ~ IsError(mergeAns)
  /\ Reads(workload[1]) = {0}
  /\ Writes(workload[2]) = {1}
  /\ mergeAns.ids = {0, 1}
  /\ mergeAns.read_set.elems # Reads(workload[1])

(* C15: merge(A, B) on transactions that are not compatible fails: it      *)
(* raises and returns no merged transaction.                               *)
C15_MergeIncompatibleFails ==
  (mergeAns # None /\ ~ ExactCompatible(workload[1], workload[2]))
    => mergeAns = AssertionError

C15_Witness ==
  /\ mergeAns = AssertionError
  /\ Writes(workload[1]) \cap Writes(workload[2]) # {}
  /\ Reads(workload[1]) = {}
  /\ Reads(workload[2]) = {}

-----------------------------------------------------------------------------
(* C2: no two transactions that are active at the same time conflict: no   *)
(* object written by one is read or written by the other.                  *)
C2_NoActiveConflict ==
  \A i, j \in DOMAIN active_txns :
    i # j =>
      LET a == active_txns[i][1]
          b == active_txns[j][1]
      IN  /\ a = txn_map[i]
          /\ b = txn_map[j]
          /\ a.writes \cap (b.reads \cup b.writes) = {}
          /\ b.writes \cap (a.reads \cup a.writes) = {}

C2_Witness ==
  /\ Cardinality(DOMAIN active_txns) = 2
  /\ \E i \in DOMAIN active_txns : active_txns[i][1].reads # {}
  /\ apc = "loop"

-----------------------------------------------------------------------------
(* C21: remove and len on a BloomFilter or ParallelBloomFilter always      *)
(* raise, and the bits of the signature stay as they were.                 *)
C21_RemoveLenUnsupported ==
  [][ (out'.op \in {"remove", "len"} /\ out' # out) =>
        /\ IsError(out'.value)
        /\ out'.arg = sig
        /\ BitsOf(sig') = BitsOf(sig) ]_vars

C21_Witness ==
  /\ out.op = "remove"
  /\ IsError(out.value)
  /\ added # {}
  /\ out.arg.kind = "pbf"
  /\ \A x \in added : SetContains(sig, x)

(* C17: union and intersection are idempotent: for a signature A reached   *)
(* by add calls, A | A and A & A are signatures whose bits equal A's bits. *)
C17_Idempotent ==
  out.op \in {"or_self", "and_self"} =>
    /\ ~ IsError(out.value)
    /\ BitsOf(out.value) = BitsOf(out.arg)

C17_Witness ==
  /\ out.op = "and_self"
  /\ added # {}
  /\ out.arg = sig
  /\ \E i \in DOMAIN BitsOf(sig) :
       \E a, b \in DOMAIN BitsOf(sig)[i] :
         BitsOf(sig)[i][a] = 1 /\ BitsOf(sig)[i][b] = 0

(* C18: union or intersection of two signatures made by independent        *)
(* family constructions raises and yields no result, whatever the length   *)
(* and the number of hash functions.                                       *)
C18_IndependentFamiliesRejected ==
  out.op \in {"or_cross", "and_cross"} => IsError(out.value)

(* C19: a ParallelBloomFilter tests as empty exactly when every one of     *)
(* its parts is empty, so it tests as non-empty as soon as one part has a  *)
(* bit set.                                                                *)
C19_EmptyIffAllPartsEmpty ==
  (out.op = "bool" /\ out.arg.kind = "pbf") =>
    ( out.value = "False"
        <=> \A i \in DOMAIN BitsOf(out.arg) : Ones(BitsOf(out.arg)[i]) = 0 )

(* C20: copying a signature succeeds; the copy has equal bits and the same *)
(* hash functions, and a later add on the copy leaves the original as it   *)
(* was, and a later add on the original leaves the copy as it was.         *)
C20_CopyIndependent ==
  [][ /\ (out.op # "copy" /\ out'.op = "copy") =>
           /\ ~ IsError(out'.value)
           /\ BitsOf(out'.value) = BitsOf(sig)
           /\ HashFnsOf(out'.value) = HashFnsOf(sig)
           /\ sig' = sig
      /\ (out.op = "copy" /\ out'.op = "copy" /\ out'.value # out.value) =>
           sig' = sig
      /\ (out.op = "copy" /\ out'.op = "copy" /\ sig' # sig) =>
           out'.value = out.value ]_vars


(* ----------------------------------------------------------------------- *)
(* Vocabulary of the analyzer claims                                        *)
(* ----------------------------------------------------------------------- *)

\* exact-set conflict: a write of either transaction meets a read or a
\* write of the other
RawConflict(a, b) ==
  \/ a.writes \cap (b.reads \cup b.writes) # {}
  \/ b.writes \cap (a.reads \cup a.writes) # {}

\* the collections check_consistency keeps while it reads the log
AnalyzerData ==
  <<submitted, scheduled, done, submit_times, schedule_times, done_times,
    active_txns, puppet_busy_time, first_submit_time, last_done_time>>

RECURSIVE SumOver(_, _)
SumOver(S, f) ==
  IF S = {} THEN 0
  ELSE LET x == CHOOSE y \in S : TRUE IN f[x] + SumOver(S \ {x}, f)

\* the time transaction i spent on its puppet
RunTime == [i \in done |-> done_times[i] - schedule_times[i][1]]

\* the transactions done on puppet p
DoneOn(p) == { i \in done : schedule_times[i][2] = p }

(* C23: a scheduled event for transaction i that conflicts with a          *)
(* transaction currently active ends check_consistency and leaves i out of *)
(* the active set; when the event passed the earlier checks the diagnostic *)
(* is "Conflict detected when scheduling txn i".                           *)
C23_ConflictRejected ==
  [][ \A t \in EventTimes, i \in EventIds, p \in EventPuppets :
        ( /\ i \in DOMAIN txn_map
          /\ \E k \in DOMAIN active_txns : RawConflict(txn_map[i], txn_map[k])
          /\ HandleScheduled(t, i, p) )
        => /\ apc' = "exit"
           /\ active_txns' = active_txns
           /\ (i \in submitted \ scheduled /\ p < num_puppets)
                => exit_msg' = Exit("Conflict detected when scheduling txn", i)
    ]_vars

\* two writers of one object, the second scheduled while the first is active
C23_Witness ==
  /\ apc = "exit"
  /\ exit_msg.rule = "Conflict detected when scheduling txn"
  /\ \E k \in DOMAIN active_txns :
       /\ k # exit_msg.txn_id
       /\ txn_map[k].writes \cap txn_map[exit_msg.txn_id].writes # {}
  /\ exit_msg.txn_id \notin DOMAIN active_txns

(* C24: the success message is never printed while a submitted transaction *)
(* is not scheduled or not done.                                           *)
C24_LifecycleComplete ==
  (apc \in {"passed", "reported"} \/ (apc = "crash" /\ exit_msg = ZeroDivisionError))
    => (submitted \subseteq scheduled /\ submitted \subseteq done)

C24_Witness ==
  apc = "passed" /\ submitted = 0 .. (NumTxns - 1) /\ done = submitted

(* C25: a second submit of an id, a scheduled event for an id that is not  *)
(* submitted or is already scheduled, and a done event for an id that is   *)
(* not scheduled or is already done, each end check_consistency with an    *)
(* error and record nothing.                                               *)
C25_LifecycleForwardOnce ==
  [][ \A t \in EventTimes, i \in EventIds, p \in EventPuppets :
        /\ (i \in submitted /\ HandleSubmit(t, i))
             => (apc' = "exit" /\ AnalyzerData' = AnalyzerData)
        /\ ((i \notin submitted \/ i \in scheduled) /\ HandleScheduled(t, i, p))
             => (apc' = "exit" /\ AnalyzerData' = AnalyzerData)
        /\ ((i \notin scheduled \/ i \in done) /\ HandleDone(t, i, p))
             => (apc' = "exit" /\ AnalyzerData' = AnalyzerData)
    ]_vars

\* a transaction that went through the whole lifecycle is submitted again
C25_Witness ==
  /\ apc = "exit"
  /\ exit_msg.rule = "submitted more than once"
  /\ exit_msg.txn_id \in done

(* C26: a scheduled event whose puppet is outside 0 .. num_puppets - 1,    *)
(* and a done event whose puppet is not the one the transaction was        *)
(* scheduled on, end check_consistency with an error; an accepted          *)
(* scheduled event has its puppet in range and an accepted done event      *)
(* names the puppet of the scheduling.                                     *)
C26_LaneValidity ==
  [][ \A t \in EventTimes, i \in EventIds, p \in EventPuppets :
        /\ (~ (0 <= p /\ p < num_puppets) /\ HandleScheduled(t, i, p))
             => apc' = "exit"
        /\ (i \in DOMAIN schedule_times /\ schedule_times[i][2] # p
              /\ HandleDone(t, i, p))
             => (apc' = "exit" /\ done' = done)
    ]_vars

\* a done event on the wrong puppet was refused
C26_Witness ==
  /\ apc = "exit"
  /\ exit_msg.rule = "Puppet ID mismatch on done"
  /\ exit_msg.txn_id \in scheduled \ done

(* C27: the step that finds a violation changes none of the analyzer's     *)
(* collections, no step follows it, and a run that printed the success     *)
(* message or the metrics recorded no violation.                           *)
C27_HaltsOnFirstViolation ==
  [][ /\ apc \in {"loop", "passed"}
      /\ apc' = "exit" =>
           /\ apc = "loop"
           /\ exit_msg = None /\ exit_msg' # None
           /\ AnalyzerData' = AnalyzerData
           /\ utilization' = None
      /\ apc' \in {"loop", "passed", "reported"} => exit_msg' = None
      /\ utilization' # None => apc' = "reported"
    ]_vars

\* a violation found after some events were accepted
C27_Witness ==
  /\ apc = "exit"
  /\ exit_msg # None
  /\ done # {}
  /\ utilization = None

(* C28: an event that respects the lifecycle, the lane rules and the       *)
(* conflict rule is accepted, and the end of a log in which every          *)
(* submitted transaction is done prints the success message.               *)
C28_NoFalseAlarms ==
  [][ \A t \in EventTimes, i \in EventIds, p \in EventPuppets :
        /\ (i \in DOMAIN txn_map /\ i \notin submitted /\ HandleSubmit(t, i))
             => (apc' = "loop" /\ exit_msg' = None /\ i \in submitted')
        /\ ( /\ i \in DOMAIN txn_map
             /\ i \in submitted \ scheduled
             /\ 0 <= p /\ p < num_puppets
             /\ \A k \in scheduled \ done : ~ RawConflict(txn_map[i], txn_map[k])
             /\ HandleScheduled(t, i, p) )
             => (apc' = "loop" /\ exit_msg' = None /\ i \in scheduled')
        /\ ( /\ i \in scheduled \ done
             /\ schedule_times[i][2] = p
             /\ HandleDone(t, i, p) )
             => (apc' = "loop" /\ exit_msg' = None /\ i \in done')
        /\ (submitted \subseteq DOMAIN txn_map /\ done = submitted /\ EndOfLog)
             => (apc' = "passed" /\ exit_msg' = None)
    ]_vars

\* every transaction of the file went through the lifecycle and the log passed
C28_Witness ==
  /\ apc = "passed"
  /\ exit_msg = None
  /\ done = DOMAIN txn_map
  /\ \E i \in done, k \in done : i # k /\ schedule_times[i][2] # schedule_times[k][2]

(* C29: when the metrics are reported, the busy time of puppet p is the    *)
(* sum of (done time - schedule time) over the transactions done on p, and *)
(* the utilization reported for p is                                       *)
(* 100 * busy_time[p] / (last_done - first_submit).                        *)
C29_UtilizationFormula ==
  (apc = "reported" /\ last_done_time # <<>> /\ first_submit_time # <<>>) =>
    \A p \in 0 .. (num_puppets - 1) :
      LET busy == SumOver(DoneOn(p), RunTime)
          wall == last_done_time[1] - first_submit_time[1]
      IN  /\ (IF p \in DOMAIN puppet_busy_time THEN puppet_busy_time[p] ELSE 0) = busy
          /\ utilization[p][1] * wall = 100 * busy * utilization[p][2]

\* the lines of the file that are not blank
NonBlank == { k \in DOMAIN csv_lines : csv_lines[k] # BlankLine }

(* C30: parse_transactions_csv skips blank lines and numbers the           *)
(* transactions by their position among the non-blank lines, so a file     *)
(* with n non-blank lines yields the ids 0 .. n-1 wherever the blank lines *)
(* are.                                                                    *)
C30_IdsCountNonBlankLines ==
  apc = "parsed" => DOMAIN txn_map = 0 .. (Cardinality(NonBlank) - 1)

\* the lines of the log that are neither blank nor simulator noise
EventLines == { k \in DOMAIN log_lines :
                  log_lines[k] # BlankLine /\ ~ log_lines[k].noise }

\* the j-th of them in file order
NthEventLine(j) ==
  CHOOSE k \in EventLines : Cardinality({ m \in EventLines : m <= k }) = j

\* a line that one of the three event patterns matches, with a readable time
WellFormed(line) == line.matches # {} /\ line.time # BadTime

(* C31: parse_log returns one event per submit/scheduled/done line, in the *)
(* order of the lines, with the time, transaction and puppet written on    *)
(* the line; blank lines and simulator-noise lines give no event; and it   *)
(* aborts, returning nothing, exactly when some other line is not a        *)
(* well-formed event line.                                                 *)
C31_OneEventPerLineInOrder ==
  /\ lpc = "returned" =>
       /\ \A k \in EventLines : WellFormed(log_lines[k])
       /\ Len(events) = Cardinality(EventLines)
       /\ \A j \in DOMAIN events :
            LET line == log_lines[NthEventLine(j)]
            IN  /\ events[j].kind \in line.matches
                /\ events[j].time = line.time.float
                /\ events[j].txn_id = line.txn_id
                /\ events[j].puppet_id =
                     (IF events[j].kind = "submit" THEN None ELSE line.puppet_id)
  /\ lpc \in {"exit", "crash"} =>
       /\ \E k \in EventLines : ~ WellFormed(log_lines[k])
       /\ events = <<>>
  /\ (lpc = "exit" =>
        \E k \in EventLines : log_lines[k].matches = {})

\* two events of different transactions around a noise line
C31_Witness ==
  /\ lpc = "returned"
  /\ Len(events) = 2
  /\ events[1].txn_id # events[2].txn_id
  /\ events[2].kind = "done"
  /\ \E k \in DOMAIN log_lines : log_lines[k] # BlankLine /\ log_lines[k].noise

(* C32: in every run of GreedyScheduler.schedule and                       *)
(* TournamentScheduler.schedule, on exact-set and on signature-backed      *)
(* transactions, the precondition assertion of merge never fails.          *)
C32_MergePreconditionHolds ==
  err # MergePrecondition

\* a greedy run on signatures that merged one transaction and refused another
C32_Witness ==
  /\ Wrapped
  /\ sched = "greedy"
  /\ pc = "done"
  /\ err = "none"
  /\ Len(all_txns) = 3
  /\ Len(result) = 2

(* C33: in a log that check_consistency accepts, no transaction is done   *)
(* at a time earlier than the time it was scheduled at, and none is        *)
(* scheduled at a time earlier than the first submit.                      *)
C33_TimesNonDecreasing ==
  apc = "passed" =>
    \A i \in done :
      /\ schedule_times[i][1] <= done_times[i]
      /\ first_submit_time[1] <= schedule_times[i][1]

(* C34: in every state of check_consistency, done is a subset of           *)
(* scheduled, scheduled is a subset of submitted, the keys of active_txns  *)
(* are scheduled minus done, every active entry carries the puppet         *)
(* recorded at scheduling, and the run never ends with "done but not in    *)
(* active set".                                                            *)
C34_SetsNested ==
  /\ done \subseteq scheduled
  /\ scheduled \subseteq submitted
  /\ DOMAIN active_txns = scheduled \ done
  /\ DOMAIN schedule_times = scheduled
  /\ \A i \in DOMAIN active_txns : active_txns[i][2] = schedule_times[i][2]
  /\ apc = "exit" => exit_msg.rule # "done but not in active set"

\* one transaction done while another is still active
C34_Witness ==
  /\ apc = "loop"
  /\ done # {}
  /\ DOMAIN active_txns # {}
  /\ submitted = scheduled

(* C35: in every state of check_consistency, no two active transactions    *)
(* are on the same puppet.                                                 *)
C35_LaneExclusive ==
  \A i \in DOMAIN active_txns, k \in DOMAIN active_txns :
    i # k => active_txns[i][2] # active_txns[k][2]

(* C36: no run of check_consistency ends in an unhandled lookup failure: a *)
(* scheduled event for a submitted id that is not in the transactions file *)
(* ends with a diagnostic exit.                                            *)
C36_UnknownIdDiagnosed ==
  ~ (apc = "crash" /\ exit_msg = KeyError)

(* C37: on the same read and write sets, conflict(A, B) is true exactly   *)
(* when A.compat(B) is false, and conflict(A, B) = conflict(B, A).         *)
C37_ConflictIsNotCompat ==
  (compatAns # "unset" /\ conflictAns # None) =>
    /\ compatAns \in {"True", "False"}
    /\ conflictAns.ab <=> (compatAns = "False")
    /\ conflictAns.ab = conflictAns.ba

\* a conflict that only the second loop of conflict() finds: A writes
\* nothing and reads an object that B writes
C37_Witness ==
  /\ compatAns = "False"
  /\ conflictAns # None
  /\ conflictAns.ab
  /\ Writes(workload[1]) = {}
  /\ Reads(workload[1]) \cap Writes(workload[2]) # {}

\* what items() yields, as a set
TableItems == { data[i] : i \in { j \in DOMAIN has : has[j] } }

\* what ref.items() yields, as a set
RefItems == { KV(k, ref[k]) : k \in DOMAIN ref }

C39_FailedAssignKeepsContents ==
  [][ (cerr = None /\ cerr' = MemoryError) => TableItems' = TableItems ]_vars

(* C40: generate_transactions terminates for every n_txns >= 0,           *)
(* n_objs >= 1 and max_objs_per_txn >= 1, max_objs_per_txn > n_objs        *)
(* included: every run reaches the return.                                 *)
C40_Terminates ==
  <>(gpc = "returned")

=============================================================================
